---------------------------- MODULE Spec2Model ----------------------------
(***************************************************************************)
(* Seat-reservation backend (junej0418/seat-reservation-backend).          *)
(*                                                                         *)
(* The repository holds several iterations of one Express + Mongoose +     *)
(* Socket.IO server.  This module models the reservation handlers of       *)
(*   - src/unnamed/part_000                  (bcrypt, weak-password rule), *)
(*   - src/app.js, third server (632-997)    (bcrypt, no 11000 handling),  *)
(*   - src/unnamed/part_003, first (1-212)   (plain-text passwords).       *)
(*                                                                         *)
(* A handler is an async function: between two awaits it runs atomically   *)
(* on the Node event loop, and every awaited Mongoose call is one atomic   *)
(* operation of the document store.  Each action below is one such step:   *)
(* the store operation together with the synchronous continuation that     *)
(* follows it, except where the continuation itself touches shared state   *)
(* (the clock, the Socket.IO broadcast), which is a step of its own.       *)
(***************************************************************************)
EXTENDS Integers, Sequences, FiniteSets, TLC

(***************************************************************************)
(* Bounds of the model.                                                    *)
(***************************************************************************)
\* Total number of HTTP requests issued in one behaviour.
MaxIssued == 2
\* The clock runs over 0..MaxTime.
MaxTime == 2

\* Connections; each carries one request at a time, so up to two handlers
\* are in flight together.  Connections are interchangeable: a new request
\* takes the first free one.
Conns == {1, 2}

Times == 0 .. MaxTime
\* A null Date (reservationStartTime: {type: Date, default: null}).
Null == 0 - 1

(***************************************************************************)
(* Characters and passwords.  A password is a sequence of one-character    *)
(* strings.                                                                *)
(***************************************************************************)
LowerCase == <<"a","b","c","d","e","f","g","h","i","j","k","l","m",
               "n","o","p","q","r","s","t","u","v","w","x","y","z">>
UpperCase == <<"A","B","C","D","E","F","G","H","I","J","K","L","M",
               "N","O","P","Q","R","S","T","U","V","W","X","Y","Z">>
Digits == <<"0","1","2","3","4","5","6","7","8","9">>

\* Position of c in the sequence s, 0 when absent.
IndexIn(s, c) ==
  IF \E i \in 1 .. Len(s) : s[i] = c
  THEN CHOOSE i \in 1 .. Len(s) : s[i] = c
  ELSE 0

\* String.prototype.toLowerCase on one character.
toLowerCaseChar(c) ==
  IF IndexIn(UpperCase, c) > 0 THEN LowerCase[IndexIn(UpperCase, c)] ELSE c

toLowerCase(p) == [i \in 1 .. Len(p) |-> toLowerCaseChar(p[i])]

\* The characters that . of a regular expression does not match.
LineTerminators == {"\n", "\r"}

\* /^(.)\1{3,}$/ : one character that is no line terminator, repeated at
\* least three more times.
MatchesRepeat(p) ==
  /\ Len(p) >= 4
  /\ p[1] \notin LineTerminators
  /\ \A i \in 1 .. Len(p) : p[i] = p[1]

\* /^HEAD(x1?x2?...xn?)?$/ : HEAD followed by optional characters taken in
\* the order of tail, each at most once (not necessarily contiguous).
MatchesOptionalRow(p, head, tail) ==
  /\ Len(p) >= Len(head)
  /\ SubSeq(p, 1, Len(head)) = head
  /\ \A i \in Len(head) + 1 .. Len(p) : IndexIn(tail, p[i]) > 0
  /\ \A i \in Len(head) + 1 .. Len(p) - 1 :
        IndexIn(tail, p[i]) < IndexIn(tail, p[i + 1])

\* The four characters at 0-based offset i form a run of step +1 or -1 in
\* the alphabet al (digits, or lowercase letters).
IsRun(p, i, al) ==
  /\ \A k \in 1 .. 4 : IndexIn(al, p[i + k]) > 0
  /\ \/ \A k \in 1 .. 3 : IndexIn(al, p[i + k + 1]) = IndexIn(al, p[i + k]) + 1
     \/ \A k \in 1 .. 3 : IndexIn(al, p[i + k + 1]) = IndexIn(al, p[i + k]) - 1

isWeakPassword(password) ==
  LET p == toLowerCase(password)
      len == Len(p)
  IN \/ MatchesRepeat(p)
     \/ MatchesOptionalRow(p, <<"a","b","c","d">>, SubSeq(LowerCase, 5, 26))
     \/ MatchesOptionalRow(p, <<"q","w","e","r">>, <<"t","y","u","i","o","p">>)
     \/ MatchesOptionalRow(p, <<"a","s","d","f">>, <<"g","h","j","k","l">>)
     \/ MatchesOptionalRow(p, <<"z","x","c","v">>, <<"b","n","m">>)
     \/ /\ len >= 4
        /\ \E i \in 0 .. len - 4 : IsRun(p, i, Digits) \/ IsRun(p, i, LowerCase)

\* A stored password: the bcrypt hash of text, or text itself.
Hashed(text) == [hashed |-> TRUE, text |-> text]
Plain(text) == [hashed |-> FALSE, text |-> text]

\* bcrypt.compare(candidate, stored): true only for a bcrypt hash of candidate.
bcryptCompare(candidate, stored) == stored.hashed /\ stored.text = candidate

\* reservationSchema.pre('save'): a modified password shorter than 50
\* characters is replaced by its bcrypt hash.
preSave(password) ==
  IF Len(password) < 50 THEN Hashed(password) ELSE Plain(password)

(***************************************************************************)
(* Request inputs.                                                         *)
(***************************************************************************)
PwA == <<"k","9","x">>
PwB == <<"m","4","z">>
PwWeak == <<"1","2","3","4">>
NoPw == <<>>

Identities == {<<"101", "Kim">>, <<"202", "Lee">>}
Placements == {<<"D1", "2", 5>>, <<"D1", "2", 6>>}
Passwords == {PwA, PwB}

\* A value that is absent: an unset environment variable, a body field that
\* was not sent.
Undefined == "undefined"

\* !v of JavaScript for a string or an absent value.
Falsy(v) == v = Undefined \/ v = ""

\* The admin secret of a configured deployment, and a wrong guess of it.
AdminSecret == "s3cret"
WrongSecret == "guess"

\* Document ids (ObjectId); NotAnId is a path parameter that is no ObjectId,
\* such as the "all" of DELETE /api/reservations/all.
NoId == 0
NotAnId == 0 - 1
\* An ObjectId that no document has.
UnknownId == 0 - 2

NoRec == [id |-> NoId, roomNo |-> "", name |-> "", dormitory |-> "",
          floor |-> "", seat |-> 0, password |-> Plain(NoPw)]

NoReq == [method |-> "", id |-> NoId, roomNo |-> "", name |-> "",
          dormitory |-> "", floor |-> "", seat |-> 0, password |-> NoPw,
          honeypot_field |-> FALSE, adminUsername |-> "",
          path |-> "", username |-> "", isAdmin |-> FALSE,
          adminPassword |-> Undefined, requestingUserRoomNo |-> "",
          requestingUserName |-> "", requestingUserDormitory |-> "",
          reservationStartTime |-> Null, reservationEndTime |-> Null,
          url |-> <<>>, deviceIdentifier |-> Undefined]

NoSetting == [present |-> FALSE, reservationStartTime |-> Null,
              reservationEndTime |-> Null]

Setting(s, e) == [present |-> TRUE, reservationStartTime |-> s,
                  reservationEndTime |-> e]

VARIABLES
  ADMIN_PASSWORD,   \* process.env.ADMIN_PASSWORD of the deployment
  server,           \* which iteration of the server is deployed
  store,            \* the Reservation collection: a set of documents
  nextId,           \* the next fresh ObjectId
  settings,         \* the AdminSetting document that findOne({key: 'reservationTimes'}) returns
  now,              \* the clock read by new Date()
  issued,           \* requests issued so far
  pc,               \* per connection: the step its handler is at
  req,              \* per connection: the request being handled
  resp,             \* per connection: the status answered (0: none yet)
  adminSettings,    \* handler local: result of AdminSetting.findOne
  conflictSeat,     \* handler local: result of the placement lookup
  existingUser,     \* handler local: result of the identity / id lookup
  allReservations,  \* handler local: result of Reservation.find({})
  emitted,          \* the last reservationsUpdated payload broadcast
  socket,           \* a Socket.IO subscriber: its handler and its view
  hits,             \* the rate limiter's count for the client address
  extraAdminSettings \* AdminSetting documents with key 'reservationTimes'
                    \* besides the one findOne returns: how many

vars == <<extraAdminSettings, hits, ADMIN_PASSWORD, server, store, nextId, settings, now, issued, pc, req, resp, adminSettings,
          conflictSeat, existingUser, allReservations, emitted, socket>>

locals == <<adminSettings, conflictSeat, existingUser, allReservations>>

NoEmit == [sent |-> FALSE, payload |-> {}]

\* No subscriber is connected.
NoSocket == [pc |-> "off", allReservations |-> {}, adminSettings |-> NoSetting,
             events |-> <<>>, view |-> {}]

\* Mutant: the broadcast carries an empty list whatever was read.
BroadcastNothing(payload) ==
  /\ emitted' = [sent |-> TRUE, payload |-> {}]
  /\ socket' = IF socket.pc = "off" THEN socket ELSE [socket EXCEPT !.view = {}]

\* io.emit('reservationsUpdated', payload): every connected socket receives
\* the payload; the subscriber replaces its reservation view with it.
Broadcast(payload) ==
  /\ emitted' = [sent |-> TRUE, payload |-> payload]
  /\ socket' = IF socket.pc = "off" THEN socket ELSE [socket EXCEPT !.view = payload]

(***************************************************************************)
(* The document store.                                                     *)
(***************************************************************************)
\* e.code of MongoDB's duplicate-key error; an exception without a code
\* (TypeError, CastError) is NoErrCode.
ErrDuplicateKey == 11000
NoErrCode == 0

SameIdentity(x, y) == x.roomNo = y.roomNo /\ x.name = y.name
SamePlacement(x, y) ==
  x.dormitory = y.dormitory /\ x.floor = y.floor /\ x.seat = y.seat

\* Mutant: the unique index on (roomNo, name) is missing.
DuplicateKeySeatOnly(s, doc) ==
  \E x \in s : x.id # doc.id /\ SamePlacement(x, doc)

\* Mutant: the unique index on (dormitory, floor, seat) is missing.
DuplicateKeyUserOnly(s, doc) ==
  \E x \in s : x.id # doc.id /\ SameIdentity(x, doc)

\* reservationSchema.index({roomNo, name}, unique) and
\* reservationSchema.index({dormitory, floor, seat}, unique): writing doc
\* is rejected (E11000) when another document has one of its keys.
DuplicateKey(s, doc) ==
  \E x \in s : x.id # doc.id /\ (SameIdentity(x, doc) \/ SamePlacement(x, doc))

Pick(m) == IF m = {} THEN NoRec ELSE CHOOSE x \in m : TRUE

\* Reservation.findOne({ dormitory, floor, seat })
findOneBySeat(s, q) ==
  Pick({x \in s : x.dormitory = q.dormitory /\ x.floor = q.floor
                  /\ x.seat = q.seat})

\* Reservation.findOne({ roomNo, name })
findOneByUser(s, q) ==
  Pick({x \in s : x.roomNo = q.roomNo /\ x.name = q.name})

\* Reservation.findById(id), for an id that is an ObjectId
findById(s, id) == Pick({x \in s : x.id = id})

\* Reservation.findOne({ dormitory, floor, seat, _id: { $ne: id } })
findOneBySeatExcept(s, q, id) ==
  Pick({x \in s : x.dormitory = q.dormitory /\ x.floor = q.floor
                  /\ x.seat = q.seat /\ x.id # id})

ReqIdentityOf(q) == <<q.roomNo, q.name>>
ReqPlacementOf(q) == <<q.dormitory, q.floor, q.seat>>
IdentityOf(x) == <<x.roomNo, x.name>>
PlacementOf(x) == <<x.dormitory, x.floor, x.seat>>

(***************************************************************************)
(* Requests.                                                               *)
(***************************************************************************)
PostReq(i, p, pw) ==
  [NoReq EXCEPT !.method = "POST", !.roomNo = i[1], !.name = i[2],
                !.dormitory = p[1], !.floor = p[2], !.seat = p[3],
                !.password = pw]

PutReq(id, i, p, pw) == [PostReq(i, p, pw) EXCEPT !.method = "PUT", !.id = id]

DeleteReq(id, pw) == [NoReq EXCEPT !.method = "DELETE", !.id = id, !.password = pw]

\* if(!roomNo || !name || !dormitory || !floor || seat == null || !password)
MissingField(q) ==
  q.roomNo = "" \/ q.name = "" \/ q.dormitory = "" \/ q.floor = ""
  \/ q.password = NoPw

\* adminSettings present with both bounds, and start <= now <= end.
SettingsMissing(a) ==
  ~a.present \/ a.reservationStartTime = Null \/ a.reservationEndTime = Null

\* Mutant: the upper bound of the window is not tested.
OutsideWindowNoEnd(a, t) == t < a.reservationStartTime

\* Mutant: the bounds of the window are exclusive.
OutsideWindowExclusive(a, t) ==
  t <= a.reservationStartTime \/ t >= a.reservationEndTime

OutsideWindow(a, t) == t < a.reservationStartTime \/ t > a.reservationEndTime

(***************************************************************************)
(* Steps shared by the handlers.                                           *)
(***************************************************************************)
ClearLocals(c) ==
  /\ adminSettings' = [adminSettings EXCEPT ![c] = NoSetting]
  /\ conflictSeat' = [conflictSeat EXCEPT ![c] = NoRec]
  /\ existingUser' = [existingUser EXCEPT ![c] = NoRec]
  /\ allReservations' = [allReservations EXCEPT ![c] = {}]

\* res.status(code).json(...): the handler ends.  Only the answer is kept of
\* a finished request.
Respond(c, code) ==
  /\ pc' = [pc EXCEPT ![c] = "done"]
  /\ resp' = [resp EXCEPT ![c] = code]
  /\ req' = [req EXCEPT ![c] = NoReq]
  /\ ClearLocals(c)

Goto(c, label) == pc' = [pc EXCEPT ![c] = label] /\ UNCHANGED <<resp, req>>

Free(c) == pc[c] \in {"idle", "done"}

\* A request arrives on connection c.
Accept(c) ==
  /\ Free(c)
  /\ \A d \in Conns : d < c => ~Free(d)
  /\ issued < MaxIssued
  /\ issued' = issued + 1

\* The handler of request q on connection c reaches its first await.
Enter(c, q, label) ==
  /\ pc' = [pc EXCEPT ![c] = label]
  /\ req' = [req EXCEPT ![c] = q]
  /\ resp' = [resp EXCEPT ![c] = 0]
  /\ UNCHANGED locals

(***************************************************************************)
(* src/unnamed/part_000: POST /api/reservations (create or move).          *)
(***************************************************************************)
P0PostInputs ==
  {PostReq(i, p, pw) : i \in Identities, p \in Placements, pw \in Passwords}
  \cup {PostReq(<<"101", "Kim">>, <<"D1", "2", 5>>, PwWeak),
        PostReq(<<"", "Kim">>, <<"D1", "2", 5>>, PwA),
        [PostReq(<<"101", "Kim">>, <<"D1", "2", 5>>, PwA)
           EXCEPT !.honeypot_field = TRUE]}

\* Lines 201-208: honeypot, required fields, weak password; all before the
\* first await.
P0PostStart(c) ==
  \E q \in P0PostInputs :
    /\ Accept(c)
    /\ IF q.honeypot_field \/ MissingField(q) \/ isWeakPassword(q.password)
       THEN Respond(c, 400)
       ELSE Enter(c, q, "p_settings")
    /\ UNCHANGED <<extraAdminSettings, hits, ADMIN_PASSWORD, server, store, nextId, settings, now, emitted, socket>>

\* Line 210: await AdminSetting.findOne({ key: 'reservationTimes' })
P0PostSettings(c) ==
  /\ pc[c] = "p_settings"
  /\ adminSettings' = [adminSettings EXCEPT ![c] = settings]
  /\ Goto(c, "p_gate")
  /\ UNCHANGED <<extraAdminSettings, hits, ADMIN_PASSWORD, server, store, nextId, settings, now, issued, conflictSeat,
                 existingUser, allReservations, emitted, socket>>

\* Lines 211-216: the window gate, evaluated against new Date().
P0PostGate(c) ==
  /\ pc[c] = "p_gate"
  /\ IF SettingsMissing(adminSettings[c]) \/ OutsideWindow(adminSettings[c], now)
     THEN Respond(c, 403)
     ELSE Goto(c, "p_findSeat") /\ UNCHANGED locals
  /\ UNCHANGED <<extraAdminSettings, hits, ADMIN_PASSWORD, server, store, nextId, settings, now, issued, emitted, socket>>

\* Line 219: conflictSeat = await Reservation.findOne({ dormitory, floor, seat })
P0PostFindSeat(c) ==
  /\ pc[c] = "p_findSeat"
  /\ conflictSeat' = [conflictSeat EXCEPT ![c] = findOneBySeat(store, req[c])]
  /\ Goto(c, "p_findUser")
  /\ UNCHANGED <<extraAdminSettings, hits, ADMIN_PASSWORD, server, store, nextId, settings, now, issued, adminSettings,
                 existingUser, allReservations, emitted, socket>>

\* Mutant: the conflict is raised only for a requester without a reservation.
P0SeatTakenOnlyNew(conflict, existing) == conflict # NoRec /\ existing = NoRec

\* Mutant: the requester's own document counts as a conflict.
P0SeatTakenNoExempt(conflict, existing) == conflict # NoRec

\* Line 221: the placement is taken by a document that is not the
\* requester's own.
P0SeatTaken(conflict, existing) ==
  conflict # NoRec /\ (existing = NoRec \/ existing.id # conflict.id)

\* Lines 226-227: the credential check of the move path.
P0isPasswordCorrect(password, existing) ==
  bcryptCompare(password, existing.password)

\* Lines 220-228: existingUser = await Reservation.findOne({ roomNo, name }),
\* then the conflict test and, for an existing user, bcrypt.compare.
P0PostFindUser(c) ==
  /\ pc[c] = "p_findUser"
  /\ LET existing == findOneByUser(store, req[c])
     IN IF P0SeatTaken(conflictSeat[c], existing)
        THEN Respond(c, 409)
        ELSE IF existing # NoRec
        THEN IF ~P0isPasswordCorrect(req[c].password, existing)
             THEN Respond(c, 401)
             ELSE /\ existingUser' = [existingUser EXCEPT ![c] = existing]
                  /\ Goto(c, "p_update")
                  /\ UNCHANGED <<adminSettings, conflictSeat, allReservations>>
        ELSE /\ existingUser' = [existingUser EXCEPT ![c] = NoRec]
             /\ Goto(c, "p_save")
             /\ UNCHANGED <<adminSettings, conflictSeat, allReservations>>
  /\ UNCHANGED <<extraAdminSettings, hits, ADMIN_PASSWORD, server, store, nextId, settings, now, issued, emitted, socket>>

\* Mutant: the catch does not look at e.code.
P0PostCatchNoCode(code) == 500

\* Lines 240-245, catch(e): a duplicate-key error of the store is answered
\* 409, any other exception 500.
P0PostCatch(code) == IF code = ErrDuplicateKey THEN 409 ELSE 500

\* Mutant: findByIdAndUpdate leaves the document where it was.
P0PostUpdatedInPlace(old, q) == old

\* The document findByIdAndUpdate(existingUser._id, { dormitory, floor, seat })
\* writes.
P0PostUpdated(old, q) ==
  [old EXCEPT !.dormitory = q.dormitory, !.floor = q.floor, !.seat = q.seat]

\* Lines 230-231 and the catch of 240-245.  A document deleted meanwhile makes
\* findByIdAndUpdate return null, and reservation.name then throws a
\* TypeError, which has no code: 500.
P0PostUpdate(c) ==
  /\ pc[c] = "p_update"
  /\ LET cur == findById(store, existingUser[c].id)
         new == P0PostUpdated(cur, req[c])
     IN IF cur = NoRec
        THEN Respond(c, P0PostCatch(NoErrCode)) /\ UNCHANGED store
        ELSE IF DuplicateKey(store, new)
        THEN Respond(c, P0PostCatch(ErrDuplicateKey)) /\ UNCHANGED store
        ELSE /\ store' = (store \ {cur}) \cup {new}
             /\ Goto(c, "p_list")
             /\ UNCHANGED locals
  /\ UNCHANGED <<extraAdminSettings, hits, ADMIN_PASSWORD, server, nextId, settings, now, issued, emitted, socket>>

\* The document new Reservation({...}).save() inserts (line 233, and the
\* pre('save') hook of lines 99-104).
P0NewReservation(id, q) ==
  [id |-> id, roomNo |-> q.roomNo, name |-> q.name, dormitory |-> q.dormitory,
   floor |-> q.floor, seat |-> q.seat, password |-> preSave(q.password)]

\* Lines 233-235 and the catch of 240-245.
P0PostSave(c) ==
  /\ pc[c] = "p_save"
  /\ LET new == P0NewReservation(nextId, req[c])
     IN IF DuplicateKey(store, new)
        THEN Respond(c, P0PostCatch(ErrDuplicateKey)) /\ UNCHANGED <<store, nextId>>
        ELSE /\ store' = store \cup {new}
             /\ nextId' = nextId + 1
             /\ Goto(c, "p_list")
             /\ UNCHANGED locals
  /\ UNCHANGED <<extraAdminSettings, hits, ADMIN_PASSWORD, server, settings, now, issued, emitted, socket>>

\* Line 237: allReservations = await Reservation.find({})
P0PostList(c) ==
  /\ pc[c] = "p_list"
  /\ allReservations' = [allReservations EXCEPT ![c] = store]
  /\ Goto(c, "p_emit")
  /\ UNCHANGED <<extraAdminSettings, hits, ADMIN_PASSWORD, server, store, nextId, settings, now, issued, adminSettings,
                 conflictSeat, existingUser, emitted, socket>>

\* Lines 238-239: io.emit('reservationsUpdated', allReservations); res.json
P0PostEmit(c) ==
  /\ pc[c] = "p_emit"
  /\ Broadcast(allReservations[c])
  /\ Respond(c, 200)
  /\ UNCHANGED <<extraAdminSettings, hits, ADMIN_PASSWORD, server, store, nextId, settings, now, issued>>

(***************************************************************************)
(* src/unnamed/part_000: PUT /api/reservations/update/:id (move by id).    *)
(***************************************************************************)
StoreIds == {x.id : x \in store}

P0PutInputs ==
  {PutReq(id, i, p, pw) : id \in StoreIds, i \in Identities,
                          p \in Placements, pw \in Passwords}
  \cup {PutReq(UnknownId, <<"101", "Kim">>, <<"D1", "2", 6>>, PwA),
        PutReq(1, <<"101", "Kim">>, <<"D1", "2", 6>>, PwWeak),
        PutReq(1, <<"101", "">>, <<"D1", "2", 6>>, PwA),
        PutReq(NotAnId, <<"101", "Kim">>, <<"D1", "2", 6>>, PwA)}

\* Lines 250-260: honeypot, required fields, weak password.
P0PutStart(c) ==
  \E q \in P0PutInputs :
    /\ Accept(c)
    /\ IF q.honeypot_field \/ MissingField(q) \/ isWeakPassword(q.password)
       THEN Respond(c, 400)
       ELSE Enter(c, q, "u_settings")
    /\ UNCHANGED <<extraAdminSettings, hits, ADMIN_PASSWORD, server, store, nextId, settings, now, emitted, socket>>

\* Line 262: await AdminSetting.findOne({ key: 'reservationTimes' })
P0PutSettings(c) ==
  /\ pc[c] = "u_settings"
  /\ adminSettings' = [adminSettings EXCEPT ![c] = settings]
  /\ Goto(c, "u_gate")
  /\ UNCHANGED <<extraAdminSettings, hits, ADMIN_PASSWORD, server, store, nextId, settings, now, issued, conflictSeat,
                 existingUser, allReservations, emitted, socket>>

\* Lines 263-268: the window gate.
P0PutGate(c) ==
  /\ pc[c] = "u_gate"
  /\ IF SettingsMissing(adminSettings[c]) \/ OutsideWindow(adminSettings[c], now)
     THEN Respond(c, 403)
     ELSE Goto(c, "u_findById") /\ UNCHANGED locals
  /\ UNCHANGED <<extraAdminSettings, hits, ADMIN_PASSWORD, server, store, nextId, settings, now, issued, emitted, socket>>

\* Lines 294-299, catch(e).
P0PutCatch(code) == IF code = ErrDuplicateKey THEN 409 ELSE 500

\* Lines 275-276: the credential check of PUT.
P0PutPasswordCorrect(password, existing) ==
  bcryptCompare(password, existing.password)

\* Lines 271-277: existingReservation = await Reservation.findById(id); a
\* path parameter that is no ObjectId makes findById throw a CastError (500).
P0PutFindById(c) ==
  /\ pc[c] = "u_findById"
  /\ LET existing == findById(store, req[c].id)
     IN IF req[c].id = NotAnId
        THEN Respond(c, P0PutCatch(NoErrCode))
        ELSE IF existing = NoRec
        THEN Respond(c, 404)
        ELSE IF ~P0PutPasswordCorrect(req[c].password, existing)
        THEN Respond(c, 401)
        ELSE /\ existingUser' = [existingUser EXCEPT ![c] = existing]
             /\ Goto(c, "u_findConflict")
             /\ UNCHANGED <<adminSettings, conflictSeat, allReservations>>
  /\ UNCHANGED <<extraAdminSettings, hits, ADMIN_PASSWORD, server, store, nextId, settings, now, issued, emitted, socket>>

\* Lines 279-281: the placement lookup that excludes the document itself.
P0PutFindConflict(c) ==
  /\ pc[c] = "u_findConflict"
  /\ IF findOneBySeatExcept(store, req[c], req[c].id) # NoRec
     THEN Respond(c, 409)
     ELSE Goto(c, "u_update") /\ UNCHANGED locals
  /\ UNCHANGED <<extraAdminSettings, hits, ADMIN_PASSWORD, server, store, nextId, settings, now, issued, emitted, socket>>

\* The document findByIdAndUpdate(id, { roomNo, name, dormitory, floor, seat })
\* writes.
P0PutUpdated(old, q) ==
  [old EXCEPT !.roomNo = q.roomNo, !.name = q.name,
              !.dormitory = q.dormitory, !.floor = q.floor, !.seat = q.seat]

\* Lines 283-288 and the catch of 294-299.
P0PutUpdate(c) ==
  /\ pc[c] = "u_update"
  /\ LET cur == findById(store, req[c].id)
         new == P0PutUpdated(cur, req[c])
     IN IF cur = NoRec
        THEN Respond(c, P0PutCatch(NoErrCode)) /\ UNCHANGED store
        ELSE IF DuplicateKey(store, new)
        THEN Respond(c, P0PutCatch(ErrDuplicateKey)) /\ UNCHANGED store
        ELSE /\ store' = (store \ {cur}) \cup {new}
             /\ Goto(c, "u_list")
             /\ UNCHANGED locals
  /\ UNCHANGED <<extraAdminSettings, hits, ADMIN_PASSWORD, server, nextId, settings, now, issued, emitted, socket>>

\* Line 290: allReservations = await Reservation.find({})
P0PutList(c) ==
  /\ pc[c] = "u_list"
  /\ allReservations' = [allReservations EXCEPT ![c] = store]
  /\ Goto(c, "u_emit")
  /\ UNCHANGED <<extraAdminSettings, hits, ADMIN_PASSWORD, server, store, nextId, settings, now, issued, adminSettings,
                 conflictSeat, existingUser, emitted, socket>>

\* Lines 291-293: io.emit('reservationsUpdated', allReservations); res.json
P0PutEmit(c) ==
  /\ pc[c] = "u_emit"
  /\ Broadcast(allReservations[c])
  /\ Respond(c, 200)
  /\ UNCHANGED <<extraAdminSettings, hits, ADMIN_PASSWORD, server, store, nextId, settings, now, issued>>

(***************************************************************************)
(* src/unnamed/part_000: DELETE /api/reservations/:id (cancel).  The route *)
(* is registered before DELETE /api/reservations/all, so a DELETE of       *)
(* /api/reservations/all is handled here, with id = "all".                 *)
(***************************************************************************)
P0DeleteInputs ==
  {DeleteReq(id, pw) : id \in StoreIds, pw \in Passwords}
  \cup {DeleteReq(UnknownId, PwA), DeleteReq(1, NoPw), DeleteReq(NotAnId, PwA),
        [DeleteReq(NotAnId, NoPw) EXCEPT !.adminUsername = "admin"]}

\* Lines 305-308: a password is required.
P0DeleteStart(c) ==
  \E q \in P0DeleteInputs :
    /\ Accept(c)
    /\ IF q.password = NoPw
       THEN Respond(c, 400)
       ELSE Enter(c, q, "d_findById")
    /\ UNCHANGED <<extraAdminSettings, hits, ADMIN_PASSWORD, server, store, nextId, settings, now, emitted, socket>>

\* Mutant: the cancel does not check the password.
P0DeleteNoCheck(password, existing) == TRUE

\* Mutant: the cancel is refused while the booking window is closed.
P0DeleteGated(password, existing) ==
  /\ bcryptCompare(password, existing.password)
  /\ ~SettingsMissing(settings)
  /\ ~OutsideWindow(settings, now)

\* Lines 314-315: the credential check of DELETE.
P0DeletePasswordCorrect(password, existing) ==
  bcryptCompare(password, existing.password)

\* Lines 310-316: findById, then bcrypt.compare.
P0DeleteFindById(c) ==
  /\ pc[c] = "d_findById"
  /\ LET existing == findById(store, req[c].id)
     IN IF req[c].id = NotAnId
        THEN Respond(c, 500)
        ELSE IF existing = NoRec
        THEN Respond(c, 404)
        ELSE IF ~P0DeletePasswordCorrect(req[c].password, existing)
        THEN Respond(c, 401)
        ELSE /\ existingUser' = [existingUser EXCEPT ![c] = existing]
             /\ Goto(c, "d_delete")
             /\ UNCHANGED <<adminSettings, conflictSeat, allReservations>>
  /\ UNCHANGED <<extraAdminSettings, hits, ADMIN_PASSWORD, server, store, nextId, settings, now, issued, emitted, socket>>

\* Line 318: await Reservation.findByIdAndDelete(id)
P0DeleteDelete(c) ==
  /\ pc[c] = "d_delete"
  /\ store' = {x \in store : x.id # req[c].id}
  /\ Goto(c, "d_list")
  /\ UNCHANGED <<extraAdminSettings, hits, ADMIN_PASSWORD, server, nextId, settings, now, issued, locals, emitted, socket>>

\* Line 322: allReservations = await Reservation.find({})
P0DeleteList(c) ==
  /\ pc[c] = "d_list"
  /\ allReservations' = [allReservations EXCEPT ![c] = store]
  /\ Goto(c, "d_emit")
  /\ UNCHANGED <<extraAdminSettings, hits, ADMIN_PASSWORD, server, store, nextId, settings, now, issued, adminSettings,
                 conflictSeat, existingUser, emitted, socket>>

\* Lines 323-325: io.emit('reservationsUpdated', allReservations); res.json
P0DeleteEmit(c) ==
  /\ pc[c] = "d_emit"
  /\ Broadcast(allReservations[c])
  /\ Respond(c, 200)
  /\ UNCHANGED <<extraAdminSettings, hits, ADMIN_PASSWORD, server, store, nextId, settings, now, issued>>

(***************************************************************************)
(* The clock.                                                              *)
(***************************************************************************)
Tick ==
  /\ now < MaxTime
  /\ now' = now + 1
  /\ UNCHANGED <<extraAdminSettings, hits, ADMIN_PASSWORD, server, store, nextId, settings, issued, pc, req, resp, locals, emitted, socket>>

(***************************************************************************)
(* Initial states.                                                         *)
(***************************************************************************)
\* Reservation documents left in the collection by earlier requests.
KimAt5(pw) == [id |-> 1, roomNo |-> "101", name |-> "Kim", dormitory |-> "D1",
               floor |-> "2", seat |-> 5, password |-> pw]
LeeAt6(pw) == [id |-> 2, roomNo |-> "202", name |-> "Lee", dormitory |-> "D1",
               floor |-> "2", seat |-> 6, password |-> pw]

InitSettings == {NoSetting, Setting(Null, 1), Setting(1, Null), Setting(1, 1)}

InitCommon ==
  /\ settings \in InitSettings
  /\ now \in Times
  /\ issued = 0
  /\ pc = [c \in Conns |-> "idle"]
  /\ req = [c \in Conns |-> NoReq]
  /\ resp = [c \in Conns |-> 0]
  /\ adminSettings = [c \in Conns |-> NoSetting]
  /\ conflictSeat = [c \in Conns |-> NoRec]
  /\ existingUser = [c \in Conns |-> NoRec]
  /\ allReservations = [c \in Conns |-> {}]
  /\ emitted = NoEmit
  /\ socket = NoSocket

P0Init ==
  /\ hits = 0
  /\ extraAdminSettings = 0
  /\ ADMIN_PASSWORD = AdminSecret
  /\ server = "part_000"
  /\ store \in {{}, {KimAt5(Hashed(PwA)), LeeAt6(Hashed(PwB))}}
  /\ nextId = 3
  /\ InitCommon

P0Post(c) ==
  \/ P0PostStart(c)
  \/ P0PostSettings(c)
  \/ P0PostGate(c)
  \/ P0PostFindSeat(c)
  \/ P0PostFindUser(c)
  \/ P0PostUpdate(c)
  \/ P0PostSave(c)
  \/ P0PostList(c)
  \/ P0PostEmit(c)

P0Put(c) ==
  \/ P0PutStart(c)
  \/ P0PutSettings(c)
  \/ P0PutGate(c)
  \/ P0PutFindById(c)
  \/ P0PutFindConflict(c)
  \/ P0PutUpdate(c)
  \/ P0PutList(c)
  \/ P0PutEmit(c)

P0Delete(c) ==
  \/ P0DeleteStart(c)
  \/ P0DeleteFindById(c)
  \/ P0DeleteDelete(c)
  \/ P0DeleteList(c)
  \/ P0DeleteEmit(c)

Next == Tick \/ \E c \in Conns : P0Post(c) \/ P0Put(c) \/ P0Delete(c)

Spec == P0Init /\ [][Next]_vars

(***************************************************************************)
(* src/app.js, third server (lines 632-997): POST /api/reservations.       *)
(* Passwords are hashed by the pre('save') hook; the catch answers 500 for *)
(* every exception.                                                        *)
(***************************************************************************)
VariantPostInputs ==
  {PostReq(i, p, pw) : i \in Identities, p \in Placements, pw \in Passwords}
  \cup {PostReq(<<"", "Kim">>, <<"D1", "2", 5>>, PwA)}

\* Lines 812-816: required fields.
A3PostStart(c) ==
  /\ server = "app.js#3"
  /\ \E q \in VariantPostInputs :
       /\ Accept(c)
       /\ IF MissingField(q) THEN Respond(c, 400) ELSE Enter(c, q, "a3_settings")
  /\ UNCHANGED <<extraAdminSettings, hits, ADMIN_PASSWORD, server, store, nextId, settings, now, emitted, socket>>

\* Line 819: adminSetting = await AdminSetting.findOne({key:'reservationTimes'})
A3PostSettings(c) ==
  /\ pc[c] = "a3_settings"
  /\ adminSettings' = [adminSettings EXCEPT ![c] = settings]
  /\ Goto(c, "a3_gate")
  /\ UNCHANGED <<extraAdminSettings, hits, ADMIN_PASSWORD, server, store, nextId, settings, now, issued, conflictSeat,
                 existingUser, allReservations, emitted, socket>>

\* Lines 820-825: the window gate.
A3PostGate(c) ==
  /\ pc[c] = "a3_gate"
  /\ IF SettingsMissing(adminSettings[c]) \/ OutsideWindow(adminSettings[c], now)
     THEN Respond(c, 403)
     ELSE Goto(c, "a3_findSeat") /\ UNCHANGED locals
  /\ UNCHANGED <<extraAdminSettings, hits, ADMIN_PASSWORD, server, store, nextId, settings, now, issued, emitted, socket>>

\* Line 828: conflict = await Reservation.findOne({dormitory, floor, seat})
A3PostFindSeat(c) ==
  /\ pc[c] = "a3_findSeat"
  /\ conflictSeat' = [conflictSeat EXCEPT ![c] = findOneBySeat(store, req[c])]
  /\ Goto(c, "a3_findUser")
  /\ UNCHANGED <<extraAdminSettings, hits, ADMIN_PASSWORD, server, store, nextId, settings, now, issued, adminSettings,
                 existingUser, allReservations, emitted, socket>>

\* Lines 829-837: existing = await Reservation.findOne({roomNo, name}), the
\* conflict test and, for an existing user, bcrypt.compare.
A3PostFindUser(c) ==
  /\ pc[c] = "a3_findUser"
  /\ LET existing == findOneByUser(store, req[c])
     IN IF conflictSeat[c] # NoRec
           /\ (existing = NoRec \/ existing.id # conflictSeat[c].id)
        THEN Respond(c, 409)
        ELSE IF existing # NoRec
        THEN IF ~bcryptCompare(req[c].password, existing.password)
             THEN Respond(c, 401)
             ELSE /\ existingUser' = [existingUser EXCEPT ![c] = existing]
                  /\ Goto(c, "a3_save")
                  /\ UNCHANGED <<adminSettings, conflictSeat, allReservations>>
        ELSE /\ existingUser' = [existingUser EXCEPT ![c] = NoRec]
             /\ Goto(c, "a3_insert")
             /\ UNCHANGED <<adminSettings, conflictSeat, allReservations>>
  /\ UNCHANGED <<extraAdminSettings, hits, ADMIN_PASSWORD, server, store, nextId, settings, now, issued, emitted, socket>>

\* Lines 839-843: existing.save() writes the paths whose value was changed
\* on the loaded document, to the stored document with its _id.
A3Saved(cur, loaded, q) ==
  [cur EXCEPT
     !.dormitory = IF q.dormitory # loaded.dormitory THEN q.dormitory ELSE @,
     !.floor = IF q.floor # loaded.floor THEN q.floor ELSE @,
     !.seat = IF q.seat # loaded.seat THEN q.seat ELSE @]

\* Lines 860-863, catch(e): every exception is answered 500.
A3PostCatch(code) == 500

\* Lines 839-843 and the catch: nothing is written when no path changed; a
\* document deleted meanwhile makes save() throw DocumentNotFoundError.
A3PostSave(c) ==
  /\ pc[c] = "a3_save"
  /\ LET loaded == existingUser[c]
         cur == findById(store, loaded.id)
         new == A3Saved(cur, loaded, req[c])
     IN IF PlacementOf(loaded) = ReqPlacementOf(req[c])
        THEN Goto(c, "a3_list") /\ UNCHANGED <<store, locals>>
        ELSE IF cur = NoRec
        THEN Respond(c, A3PostCatch(NoErrCode)) /\ UNCHANGED store
        ELSE IF DuplicateKey(store, new)
        THEN Respond(c, A3PostCatch(ErrDuplicateKey)) /\ UNCHANGED store
        ELSE /\ store' = (store \ {cur}) \cup {new}
             /\ Goto(c, "a3_list")
             /\ UNCHANGED locals
  /\ UNCHANGED <<extraAdminSettings, hits, ADMIN_PASSWORD, server, nextId, settings, now, issued, emitted, socket>>

\* Lines 851-854 and the catch: newReservation.save(), with the pre('save')
\* hook of lines 718-723.
A3PostInsert(c) ==
  /\ pc[c] = "a3_insert"
  /\ LET new == P0NewReservation(nextId, req[c])
     IN IF DuplicateKey(store, new)
        THEN Respond(c, A3PostCatch(ErrDuplicateKey)) /\ UNCHANGED <<store, nextId>>
        ELSE /\ store' = store \cup {new}
             /\ nextId' = nextId + 1
             /\ Goto(c, "a3_list")
             /\ UNCHANGED locals
  /\ UNCHANGED <<extraAdminSettings, hits, ADMIN_PASSWORD, server, settings, now, issued, emitted, socket>>

\* Lines 845 and 856: allReservations = await Reservation.find({})
A3PostList(c) ==
  /\ pc[c] = "a3_list"
  /\ allReservations' = [allReservations EXCEPT ![c] = store]
  /\ Goto(c, "a3_emit")
  /\ UNCHANGED <<extraAdminSettings, hits, ADMIN_PASSWORD, server, store, nextId, settings, now, issued, adminSettings,
                 conflictSeat, existingUser, emitted, socket>>

\* Lines 846-847 and 857-858: io.emit('reservationsUpdated', ...); res.json
A3PostEmit(c) ==
  /\ pc[c] = "a3_emit"
  /\ Broadcast(allReservations[c])
  /\ Respond(c, 200)
  /\ UNCHANGED <<extraAdminSettings, hits, ADMIN_PASSWORD, server, store, nextId, settings, now, issued>>

A3Post(c) ==
  \/ A3PostStart(c)
  \/ A3PostSettings(c)
  \/ A3PostGate(c)
  \/ A3PostFindSeat(c)
  \/ A3PostFindUser(c)
  \/ A3PostSave(c)
  \/ A3PostInsert(c)
  \/ A3PostList(c)
  \/ A3PostEmit(c)

(***************************************************************************)
(* src/unnamed/part_003, first server (lines 1-212): POST                  *)
(* /api/reservations.  Passwords are stored as submitted; the whole        *)
(* handler runs in one try whose catch answers 500.                        *)
(***************************************************************************)
\* Lines 157-159: required fields.
P3PostStart(c) ==
  /\ server = "part_003#1"
  /\ \E q \in VariantPostInputs :
       /\ Accept(c)
       /\ IF MissingField(q) THEN Respond(c, 400) ELSE Enter(c, q, "p3_settings")
  /\ UNCHANGED <<extraAdminSettings, hits, ADMIN_PASSWORD, server, store, nextId, settings, now, emitted, socket>>

\* Line 161: setting = await AdminSetting.findOne({key:'reservationTimes'})
P3PostSettings(c) ==
  /\ pc[c] = "p3_settings"
  /\ adminSettings' = [adminSettings EXCEPT ![c] = settings]
  /\ Goto(c, "p3_gate")
  /\ UNCHANGED <<extraAdminSettings, hits, ADMIN_PASSWORD, server, store, nextId, settings, now, issued, conflictSeat,
                 existingUser, allReservations, emitted, socket>>

\* Lines 162-166: the window gate.
P3PostGate(c) ==
  /\ pc[c] = "p3_gate"
  /\ IF SettingsMissing(adminSettings[c]) \/ OutsideWindow(adminSettings[c], now)
     THEN Respond(c, 403)
     ELSE Goto(c, "p3_findUser") /\ UNCHANGED locals
  /\ UNCHANGED <<extraAdminSettings, hits, ADMIN_PASSWORD, server, store, nextId, settings, now, issued, emitted, socket>>

\* Line 167: existUser = await Reservation.findOne({roomNo,name})
P3PostFindUser(c) ==
  /\ pc[c] = "p3_findUser"
  /\ existingUser' = [existingUser EXCEPT ![c] = findOneByUser(store, req[c])]
  /\ Goto(c, "p3_findSeat")
  /\ UNCHANGED <<extraAdminSettings, hits, ADMIN_PASSWORD, server, store, nextId, settings, now, issued, adminSettings,
                 conflictSeat, allReservations, emitted, socket>>

\* Lines 168-171 and 176: seatConflict = await Reservation.findOne(...), the
\* conflict test, then the move or the create path; the submitted password
\* is not compared with the stored one.
P3PostFindSeat(c) ==
  /\ pc[c] = "p3_findSeat"
  /\ LET seatConflict == findOneBySeat(store, req[c])
     IN IF seatConflict # NoRec
           /\ (existingUser[c] = NoRec \/ existingUser[c].id # seatConflict.id)
        THEN Respond(c, 409)
        ELSE /\ Goto(c, IF existingUser[c] # NoRec THEN "p3_update" ELSE "p3_save")
             /\ UNCHANGED locals
  /\ UNCHANGED <<extraAdminSettings, hits, ADMIN_PASSWORD, server, store, nextId, settings, now, issued, emitted, socket>>

\* The document findByIdAndUpdate(existUser._id, {dormitory, floor, seat,
\* password, createdAt}) writes.
P3Updated(old, q) ==
  [old EXCEPT !.dormitory = q.dormitory, !.floor = q.floor, !.seat = q.seat,
              !.password = Plain(q.password)]

\* Lines 182-184, catch(e): every exception is answered 500.
P3PostCatch(code) == 500

\* Line 172 and the catch.  A document deleted meanwhile makes
\* findByIdAndUpdate return null, which is answered like a success.
P3PostUpdate(c) ==
  /\ pc[c] = "p3_update"
  /\ LET cur == findById(store, existingUser[c].id)
         new == P3Updated(cur, req[c])
     IN IF cur = NoRec
        THEN Goto(c, "p3_list") /\ UNCHANGED <<store, locals>>
        ELSE IF DuplicateKey(store, new)
        THEN Respond(c, P3PostCatch(ErrDuplicateKey)) /\ UNCHANGED store
        ELSE /\ store' = (store \ {cur}) \cup {new}
             /\ Goto(c, "p3_list")
             /\ UNCHANGED locals
  /\ UNCHANGED <<extraAdminSettings, hits, ADMIN_PASSWORD, server, nextId, settings, now, issued, emitted, socket>>

\* The document new Reservation({...}).save() inserts (line 177; this
\* server's schema has no pre('save') hook).
P3NewReservation(id, q) ==
  [id |-> id, roomNo |-> q.roomNo, name |-> q.name, dormitory |-> q.dormitory,
   floor |-> q.floor, seat |-> q.seat, password |-> Plain(q.password)]

\* Lines 177-178 and the catch.
P3PostSave(c) ==
  /\ pc[c] = "p3_save"
  /\ LET new == P3NewReservation(nextId, req[c])
     IN IF DuplicateKey(store, new)
        THEN Respond(c, P3PostCatch(ErrDuplicateKey)) /\ UNCHANGED <<store, nextId>>
        ELSE /\ store' = store \cup {new}
             /\ nextId' = nextId + 1
             /\ Goto(c, "p3_list")
             /\ UNCHANGED locals
  /\ UNCHANGED <<extraAdminSettings, hits, ADMIN_PASSWORD, server, settings, now, issued, emitted, socket>>

\* Lines 173 and 179: await Reservation.find({})
P3PostList(c) ==
  /\ pc[c] = "p3_list"
  /\ allReservations' = [allReservations EXCEPT ![c] = store]
  /\ Goto(c, "p3_emit")
  /\ UNCHANGED <<extraAdminSettings, hits, ADMIN_PASSWORD, server, store, nextId, settings, now, issued, adminSettings,
                 conflictSeat, existingUser, emitted, socket>>

\* Lines 173-174 and 179-180: io.emit('reservationsUpdated', ...); res.json
P3PostEmit(c) ==
  /\ pc[c] = "p3_emit"
  /\ Broadcast(allReservations[c])
  /\ Respond(c, 200)
  /\ UNCHANGED <<extraAdminSettings, hits, ADMIN_PASSWORD, server, store, nextId, settings, now, issued>>

P3Post(c) ==
  \/ P3PostStart(c)
  \/ P3PostSettings(c)
  \/ P3PostGate(c)
  \/ P3PostFindUser(c)
  \/ P3PostFindSeat(c)
  \/ P3PostUpdate(c)
  \/ P3PostSave(c)
  \/ P3PostList(c)
  \/ P3PostEmit(c)

\* Either server, on a collection that is empty or holds one reservation.
VariantInit ==
  /\ \/ server = "app.js#3" /\ store \in {{}, {KimAt5(Hashed(PwA))}}
     \/ server = "part_003#1" /\ store \in {{}, {KimAt5(Plain(PwA))}}
  /\ nextId = 3
  /\ hits = 0
  /\ extraAdminSettings = 0
  /\ ADMIN_PASSWORD = AdminSecret
  /\ InitCommon

VariantNext == Tick \/ \E c \in Conns : A3Post(c) \/ P3Post(c)

VariantSpec == VariantInit /\ [][VariantNext]_vars

(***************************************************************************)
(* src/unnamed/part_000: a DELETE of the path /api/reservations/all.       *)
(* Express runs the first registered route that matches: DELETE            *)
(* /api/reservations/:id (line 303) precedes DELETE /api/reservations/all  *)
(* (line 333), and :id matches the segment "all".                          *)
(***************************************************************************)
\* process.env.ADMIN_USERNAMES.split(',')
ADMIN_USERNAMES == {"admin"}

P0DeleteAllInputs ==
  {[NoReq EXCEPT !.method = "DELETE", !.path = "/api/reservations/all",
                 !.id = NotAnId, !.adminUsername = u, !.password = pw] :
     u \in {"", "admin", "mallory"}, pw \in {NoPw, PwA}}

\* The request arrives and is dispatched.
P0DeleteAllStart(c) ==
  /\ server = "part_000"
  /\ \E q \in P0DeleteAllInputs : Accept(c) /\ Enter(c, q, "d_route")
  /\ UNCHANGED <<extraAdminSettings, hits, ADMIN_PASSWORD, server, store, nextId, settings, now, emitted, socket>>

\* Lines 303-308: the handler of /api/reservations/:id runs with
\* req.params.id = "all" and requires a password.
P0DeleteAllRouted(c) ==
  /\ pc[c] = "d_route"
  /\ IF req[c].password = NoPw
     THEN Respond(c, 400)
     ELSE Goto(c, "d_findById") /\ UNCHANGED locals
  /\ UNCHANGED <<extraAdminSettings, hits, ADMIN_PASSWORD, server, store, nextId, settings, now, issued, emitted, socket>>

BulkNext ==
  \E c \in Conns : P0DeleteAllStart(c) \/ P0DeleteAllRouted(c) \/ P0Delete(c)

BulkSpec == P0Init /\ [][BulkNext]_vars

(***************************************************************************)
(* src/unnamed/part_000: POST /api/admin-login.  The handler is            *)
(* synchronous.  The body's password, which is the admin secret, is held   *)
(* in the request's adminPassword field.                                   *)
(***************************************************************************)
P0AdminLoginInputs ==
  {[NoReq EXCEPT !.method = "POST", !.path = "/api/admin-login",
                 !.username = u, !.adminPassword = p] :
     u \in {Undefined, "admin", "mallory"},
     p \in {Undefined, "", AdminSecret, WrongSecret}}

\* Line 165: the request reaches the handler with its parsed body.
P0AdminLoginStart(c) ==
  /\ server = "part_000"
  /\ \E q \in P0AdminLoginInputs : Accept(c) /\ Enter(c, q, "l_check")
  /\ UNCHANGED <<extraAdminSettings, hits, ADMIN_PASSWORD, server, store, nextId, settings, now, emitted, socket>>

\* Mutant: the allow-list is not consulted.
P0AdminLoginStatusAnyName(username, password) ==
  IF Falsy(username) \/ Falsy(password) THEN 400
  ELSE IF Falsy(ADMIN_PASSWORD) THEN 500
  ELSE IF password = ADMIN_PASSWORD THEN 200
  ELSE 401

\* Lines 168-185: the status answered.
P0AdminLoginStatus(username, password) ==
  IF Falsy(username) \/ Falsy(password) THEN 400
  ELSE IF Falsy(ADMIN_PASSWORD) THEN 500
  ELSE IF username \notin ADMIN_USERNAMES THEN 401
  ELSE IF password = ADMIN_PASSWORD THEN 200
  ELSE 401

\* Lines 166-185.
P0AdminLogin(c) ==
  /\ pc[c] = "l_check"
  /\ Respond(c, P0AdminLoginStatus(req[c].username, req[c].adminPassword))
  /\ UNCHANGED <<extraAdminSettings, hits, ADMIN_PASSWORD, server, store, nextId, settings, now, issued, emitted, socket>>

\* part_000 with ADMIN_PASSWORD unset, empty or configured.
LoginInit ==
  /\ hits = 0
  /\ extraAdminSettings = 0
  /\ ADMIN_PASSWORD \in {Undefined, "", AdminSecret}
  /\ server = "part_000"
  /\ store \in {{}, {KimAt5(Hashed(PwA)), LeeAt6(Hashed(PwB))}}
  /\ nextId = 3
  /\ InitCommon

LoginNext == \E c \in Conns : P0AdminLoginStart(c) \/ P0AdminLogin(c)

LoginSpec == LoginInit /\ [][LoginNext]_vars

(***************************************************************************)
(* src/unnamed/part_000: io.on('connection') (lines 538-561), the initial  *)
(* sync of a new subscriber.  Each await is a read by the store followed,  *)
(* later, by the continuation that emits the result to the socket.  The    *)
(* socket receives the broadcasts from the moment it is connected.         *)
(***************************************************************************)
\* The announcement documents; no route that writes them is modelled.
NoAnnouncement == [message |-> "", active |-> FALSE]

InitialEvents == <<"reservationsInitial", "adminSettingsInitial",
                   "announcementInitial", "adminOnlyAnnouncementInitial">>

SockGoto(label) == [socket EXCEPT !.pc = label]

SockEmit(name, payload) == Append(socket.events, [name |-> name, payload |-> payload])

\* Line 538: a client connects.
SockConnect ==
  /\ socket.pc = "off"
  /\ server = "part_000"
  /\ socket' = SockGoto("s_findReservations")
  /\ UNCHANGED <<extraAdminSettings, hits, ADMIN_PASSWORD, server, store, nextId, settings, now, issued, pc, req, resp,
                 locals, emitted>>

\* Line 542: allReservations = await Reservation.find({})
SockFindReservations ==
  /\ socket.pc = "s_findReservations"
  /\ socket' = [SockGoto("s_emitReservations") EXCEPT !.allReservations = store]
  /\ UNCHANGED <<extraAdminSettings, hits, ADMIN_PASSWORD, server, store, nextId, settings, now, issued, pc, req, resp,
                 locals, emitted>>

\* Line 543: socket.emit('reservationsInitial', allReservations); the
\* subscriber replaces its view.
SockEmitReservations ==
  /\ socket.pc = "s_emitReservations"
  /\ socket' = [SockGoto("s_findSettings") EXCEPT
                  !.events = SockEmit("reservationsInitial", socket.allReservations),
                  !.view = socket.allReservations]
  /\ UNCHANGED <<extraAdminSettings, hits, ADMIN_PASSWORD, server, store, nextId, settings, now, issued, pc, req, resp,
                 locals, emitted>>

\* Line 545: adminSettings = await AdminSetting.findOne({ key: 'reservationTimes' })
SockFindSettings ==
  /\ socket.pc = "s_findSettings"
  /\ socket' = [SockGoto("s_emitSettings") EXCEPT !.adminSettings = settings]
  /\ UNCHANGED <<extraAdminSettings, hits, ADMIN_PASSWORD, server, store, nextId, settings, now, issued, pc, req, resp,
                 locals, emitted>>

\* Line 546: socket.emit('adminSettingsInitial', adminSettings)
SockEmitSettings ==
  /\ socket.pc = "s_emitSettings"
  /\ socket' = [SockGoto("s_findAnnouncement") EXCEPT
                  !.events = SockEmit("adminSettingsInitial", socket.adminSettings)]
  /\ UNCHANGED <<extraAdminSettings, hits, ADMIN_PASSWORD, server, store, nextId, settings, now, issued, pc, req, resp,
                 locals, emitted>>

\* Line 548: announcement = await Announcement.findOne(...)
SockFindAnnouncement ==
  /\ socket.pc = "s_findAnnouncement"
  /\ socket' = SockGoto("s_emitAnnouncement")
  /\ UNCHANGED <<extraAdminSettings, hits, ADMIN_PASSWORD, server, store, nextId, settings, now, issued, pc, req, resp,
                 locals, emitted>>

\* Line 549: socket.emit('announcementInitial', announcement)
SockEmitAnnouncement ==
  /\ socket.pc = "s_emitAnnouncement"
  /\ socket' = [SockGoto("s_findAdminAnnouncement") EXCEPT
                  !.events = SockEmit("announcementInitial", NoAnnouncement)]
  /\ UNCHANGED <<extraAdminSettings, hits, ADMIN_PASSWORD, server, store, nextId, settings, now, issued, pc, req, resp,
                 locals, emitted>>

\* Line 551: adminAnnouncement = await AdminOnlyAnnouncement.findOne(...)
SockFindAdminAnnouncement ==
  /\ socket.pc = "s_findAdminAnnouncement"
  /\ socket' = SockGoto("s_emitAdminAnnouncement")
  /\ UNCHANGED <<extraAdminSettings, hits, ADMIN_PASSWORD, server, store, nextId, settings, now, issued, pc, req, resp,
                 locals, emitted>>

\* Line 552: socket.emit('adminOnlyAnnouncementInitial', adminAnnouncement)
SockEmitAdminAnnouncement ==
  /\ socket.pc = "s_emitAdminAnnouncement"
  /\ socket' = [SockGoto("on") EXCEPT
                  !.events = SockEmit("adminOnlyAnnouncementInitial", NoAnnouncement)]
  /\ UNCHANGED <<extraAdminSettings, hits, ADMIN_PASSWORD, server, store, nextId, settings, now, issued, pc, req, resp,
                 locals, emitted>>

SockConnection ==
  \/ SockConnect
  \/ SockFindReservations
  \/ SockEmitReservations
  \/ SockFindSettings
  \/ SockEmitSettings
  \/ SockFindAnnouncement
  \/ SockEmitAnnouncement
  \/ SockFindAdminAnnouncement
  \/ SockEmitAdminAnnouncement

\* part_000 with the window open, and a client that may connect at any time.
SyncInit ==
  /\ P0Init
  /\ settings = Setting(1, 1)
  /\ now = 1

SyncNext == SockConnection \/ \E c \in Conns : P0Post(c) \/ P0Delete(c)

SyncSpec == SyncInit /\ [][SyncNext]_vars

(***************************************************************************)
(* src/app.js, first server (lines 1-385).  Reservations carry no          *)
(* password; DELETE /api/reservations/all is registered before DELETE      *)
(* /api/reservations/:id.                                                   *)
(***************************************************************************)
\* A reservation document of this server: the schema has no password.
A1Reservation(id, i, p) ==
  [id |-> id, roomNo |-> i[1], name |-> i[2], dormitory |-> p[1],
   floor |-> p[2], seat |-> p[3], password |-> Plain(NoPw)]

A1PostInputs ==
  {PostReq(i, p, NoPw) : i \in Identities, p \in Placements}
  \cup {PostReq(<<"101", "">>, <<"D1", "2", 5>>, NoPw)}

\* Lines 142-146: honeypot and required fields.
A1PostStart(c) ==
  /\ server = "app.js#1"
  /\ \E q \in A1PostInputs :
       /\ Accept(c)
       /\ IF q.honeypot_field \/ q.roomNo = "" \/ q.name = "" \/ q.dormitory = ""
             \/ q.floor = ""
          THEN Respond(c, 400)
          ELSE Enter(c, q, "a1_settings")
  /\ UNCHANGED <<extraAdminSettings, hits, ADMIN_PASSWORD, server, store, nextId, settings, now, emitted, socket>>

\* Line 148: adminSettings = await AdminSetting.findOne({key:'reservationTimes'})
A1PostSettings(c) ==
  /\ pc[c] = "a1_settings"
  /\ adminSettings' = [adminSettings EXCEPT ![c] = settings]
  /\ Goto(c, "a1_gate")
  /\ UNCHANGED <<extraAdminSettings, hits, ADMIN_PASSWORD, server, store, nextId, settings, now, issued, conflictSeat,
                 existingUser, allReservations, emitted, socket>>

\* Lines 149-154: the window gate.
A1PostGate(c) ==
  /\ pc[c] = "a1_gate"
  /\ IF SettingsMissing(adminSettings[c]) \/ OutsideWindow(adminSettings[c], now)
     THEN Respond(c, 403)
     ELSE Goto(c, "a1_findSeat") /\ UNCHANGED locals
  /\ UNCHANGED <<extraAdminSettings, hits, ADMIN_PASSWORD, server, store, nextId, settings, now, issued, emitted, socket>>

\* Line 157: conflictSeat = await Reservation.findOne({dormitory, floor, seat})
A1PostFindSeat(c) ==
  /\ pc[c] = "a1_findSeat"
  /\ conflictSeat' = [conflictSeat EXCEPT ![c] = findOneBySeat(store, req[c])]
  /\ Goto(c, "a1_findUser")
  /\ UNCHANGED <<extraAdminSettings, hits, ADMIN_PASSWORD, server, store, nextId, settings, now, issued, adminSettings,
                 existingUser, allReservations, emitted, socket>>

\* Lines 158-164: existingUser = await Reservation.findOne({roomNo, name}),
\* the conflict test, then the move or the create path.
A1PostFindUser(c) ==
  /\ pc[c] = "a1_findUser"
  /\ LET existing == findOneByUser(store, req[c])
     IN IF conflictSeat[c] # NoRec
           /\ (existing = NoRec \/ existing.id # conflictSeat[c].id)
        THEN Respond(c, 409)
        ELSE /\ existingUser' = [existingUser EXCEPT ![c] = existing]
             /\ Goto(c, IF existing # NoRec THEN "a1_update" ELSE "a1_save")
             /\ UNCHANGED <<adminSettings, conflictSeat, allReservations>>
  /\ UNCHANGED <<extraAdminSettings, hits, ADMIN_PASSWORD, server, store, nextId, settings, now, issued, emitted, socket>>

\* Lines 177-183, catch(e): a duplicate-key error is answered 409, any other
\* exception 500.
A1PostCatch(code) == IF code = ErrDuplicateKey THEN 409 ELSE 500

\* Line 167: findByIdAndUpdate(existingUser._id, {dormitory, floor, seat,
\* createdAt}); a document deleted meanwhile gives null, which is answered
\* like a success.
A1PostUpdate(c) ==
  /\ pc[c] = "a1_update"
  /\ LET cur == findById(store, existingUser[c].id)
         new == P0PostUpdated(cur, req[c])
     IN IF cur = NoRec
        THEN Goto(c, "a1_list") /\ UNCHANGED <<store, locals>>
        ELSE IF DuplicateKey(store, new)
        THEN Respond(c, A1PostCatch(ErrDuplicateKey)) /\ UNCHANGED store
        ELSE /\ store' = (store \ {cur}) \cup {new}
             /\ Goto(c, "a1_list")
             /\ UNCHANGED locals
  /\ UNCHANGED <<extraAdminSettings, hits, ADMIN_PASSWORD, server, nextId, settings, now, issued, emitted, socket>>

\* Lines 169-170: new Reservation({roomNo, name, dormitory, floor, seat}).save()
A1PostSave(c) ==
  /\ pc[c] = "a1_save"
  /\ LET new == A1Reservation(nextId, ReqIdentityOf(req[c]), ReqPlacementOf(req[c]))
     IN IF DuplicateKey(store, new)
        THEN Respond(c, A1PostCatch(ErrDuplicateKey)) /\ UNCHANGED <<store, nextId>>
        ELSE /\ store' = store \cup {new}
             /\ nextId' = nextId + 1
             /\ Goto(c, "a1_list")
             /\ UNCHANGED locals
  /\ UNCHANGED <<extraAdminSettings, hits, ADMIN_PASSWORD, server, settings, now, issued, emitted, socket>>

\* Line 173: allReservations = await Reservation.find({})
A1PostList(c) ==
  /\ pc[c] = "a1_list"
  /\ allReservations' = [allReservations EXCEPT ![c] = store]
  /\ Goto(c, "a1_emit")
  /\ UNCHANGED <<extraAdminSettings, hits, ADMIN_PASSWORD, server, store, nextId, settings, now, issued, adminSettings,
                 conflictSeat, existingUser, emitted, socket>>

\* Lines 174-176: io.emit('reservationsUpdated', allReservations); res.json
A1PostEmit(c) ==
  /\ pc[c] = "a1_emit"
  /\ Broadcast(allReservations[c])
  /\ Respond(c, 200)
  /\ UNCHANGED <<extraAdminSettings, hits, ADMIN_PASSWORD, server, store, nextId, settings, now, issued>>

A1Post(c) ==
  \/ A1PostStart(c)
  \/ A1PostSettings(c)
  \/ A1PostGate(c)
  \/ A1PostFindSeat(c)
  \/ A1PostFindUser(c)
  \/ A1PostUpdate(c)
  \/ A1PostSave(c)
  \/ A1PostList(c)
  \/ A1PostEmit(c)

\* Bodies of DELETE /api/reservations/all.
A1DeleteAllInputs ==
  {[NoReq EXCEPT !.method = "DELETE", !.path = "/api/reservations/all",
                 !.adminPassword = a] : a \in {Undefined, AdminSecret, WrongSecret}}

\* Line 261: the request reaches the handler with its parsed body.
A1DeleteAllStart(c) ==
  /\ server = "app.js#1"
  /\ \E q \in A1DeleteAllInputs : Accept(c) /\ Enter(c, q, "a1all_auth")
  /\ UNCHANGED <<extraAdminSettings, hits, ADMIN_PASSWORD, server, store, nextId, settings, now, emitted, socket>>

\* Mutants: the admin check refuses everybody; it lets everybody through.
A1AdminDeniedAlways(adminPassword) == TRUE
A1AdminDeniedNever(adminPassword) == FALSE

\* Lines 263-265: if (!ADMIN_PASSWORD || adminPassword !== ADMIN_PASSWORD)
A1AdminDenied(adminPassword) ==
  Falsy(ADMIN_PASSWORD) \/ adminPassword # ADMIN_PASSWORD

\* Lines 262-265: the admin check, before the first await.
A1DeleteAllAuth(c) ==
  /\ pc[c] = "a1all_auth"
  /\ IF A1AdminDenied(req[c].adminPassword)
     THEN Respond(c, 403)
     ELSE Goto(c, "a1all_deleteMany") /\ UNCHANGED locals
  /\ UNCHANGED <<extraAdminSettings, hits, ADMIN_PASSWORD, server, store, nextId, settings, now, issued, emitted, socket>>

\* Line 267: await Reservation.deleteMany({})
A1DeleteAllDeleteMany(c) ==
  /\ pc[c] = "a1all_deleteMany"
  /\ store' = {}
  /\ Goto(c, "a1all_list")
  /\ UNCHANGED <<extraAdminSettings, hits, ADMIN_PASSWORD, server, nextId, settings, now, issued, locals, emitted, socket>>

\* Line 268: allReservations = await Reservation.find({})
A1DeleteAllList(c) ==
  /\ pc[c] = "a1all_list"
  /\ allReservations' = [allReservations EXCEPT ![c] = store]
  /\ Goto(c, "a1all_emit")
  /\ UNCHANGED <<extraAdminSettings, hits, ADMIN_PASSWORD, server, store, nextId, settings, now, issued, adminSettings,
                 conflictSeat, existingUser, emitted, socket>>

\* Lines 269-270: io.emit('reservationsUpdated', allReservations); res.json
A1DeleteAllEmit(c) ==
  /\ pc[c] = "a1all_emit"
  /\ Broadcast(allReservations[c])
  /\ Respond(c, 200)
  /\ UNCHANGED <<extraAdminSettings, hits, ADMIN_PASSWORD, server, store, nextId, settings, now, issued>>

A1DeleteAll(c) ==
  \/ A1DeleteAllStart(c)
  \/ A1DeleteAllAuth(c)
  \/ A1DeleteAllDeleteMany(c)
  \/ A1DeleteAllList(c)
  \/ A1DeleteAllEmit(c)

\* Bodies of DELETE /api/reservations/:id: an admin request with some
\* adminPassword, or a user request naming a requester.
A1DeleteInputs ==
  LET base(id) == [NoReq EXCEPT !.method = "DELETE", !.id = id]
  IN {[base(id) EXCEPT !.isAdmin = TRUE, !.adminPassword = a] :
        id \in StoreIds \cup {UnknownId}, a \in {Undefined, AdminSecret, WrongSecret}}
     \cup {[base(id) EXCEPT !.requestingUserRoomNo = i[1], !.requestingUserName = i[2],
                            !.requestingUserDormitory = "D1"] :
             id \in StoreIds, i \in Identities \cup {<<"101", "">>}}

\* Line 279: the request reaches the handler with its parsed body.
A1DeleteStart(c) ==
  /\ server = "app.js#1"
  /\ \E q \in A1DeleteInputs : Accept(c) /\ Enter(c, q, "a1d_findById")
  /\ UNCHANGED <<extraAdminSettings, hits, ADMIN_PASSWORD, server, store, nextId, settings, now, emitted, socket>>

\* Lines 298-305: the requester must name itself, and be the owner.
A1RequesterMissing(q) ==
  q.requestingUserRoomNo = "" \/ q.requestingUserName = ""
  \/ q.requestingUserDormitory = ""

A1NotOwner(q, r) ==
  r.roomNo # q.requestingUserRoomNo \/ r.name # q.requestingUserName
  \/ r.dormitory # q.requestingUserDormitory

\* Lines 285-306: findById, then the admin check or the owner check.
A1DeleteFindById(c) ==
  /\ pc[c] = "a1d_findById"
  /\ LET reservationToCancel == findById(store, req[c].id)
     IN IF reservationToCancel = NoRec
        THEN Respond(c, 404)
        ELSE IF req[c].isAdmin /\ A1AdminDenied(req[c].adminPassword)
        THEN Respond(c, 403)
        ELSE IF ~req[c].isAdmin /\ A1RequesterMissing(req[c])
        THEN Respond(c, 400)
        ELSE IF ~req[c].isAdmin /\ A1NotOwner(req[c], reservationToCancel)
        THEN Respond(c, 403)
        ELSE Goto(c, "a1d_delete") /\ UNCHANGED locals
  /\ UNCHANGED <<extraAdminSettings, hits, ADMIN_PASSWORD, server, store, nextId, settings, now, issued, emitted, socket>>

\* Mutant: the result of findByIdAndDelete is not tested.
A1DeleteDeleteUnchecked(c) ==
  /\ pc[c] = "a1d_delete"
  /\ store' = {x \in store : x.id # req[c].id}
  /\ Goto(c, "a1d_list")
  /\ UNCHANGED locals
  /\ UNCHANGED <<extraAdminSettings, hits, ADMIN_PASSWORD, server, nextId, settings, now, issued, emitted, socket>>

\* Lines 308-309: del = await Reservation.findByIdAndDelete(id); a document
\* deleted meanwhile gives null, answered 404.
A1DeleteDelete(c) ==
  /\ pc[c] = "a1d_delete"
  /\ IF findById(store, req[c].id) = NoRec
     THEN Respond(c, 404) /\ UNCHANGED store
     ELSE /\ store' = {x \in store : x.id # req[c].id}
          /\ Goto(c, "a1d_list")
          /\ UNCHANGED locals
  /\ UNCHANGED <<extraAdminSettings, hits, ADMIN_PASSWORD, server, nextId, settings, now, issued, emitted, socket>>

\* Line 311: allReservations = await Reservation.find({})
A1DeleteList(c) ==
  /\ pc[c] = "a1d_list"
  /\ allReservations' = [allReservations EXCEPT ![c] = store]
  /\ Goto(c, "a1d_emit")
  /\ UNCHANGED <<extraAdminSettings, hits, ADMIN_PASSWORD, server, store, nextId, settings, now, issued, adminSettings,
                 conflictSeat, existingUser, emitted, socket>>

\* Lines 312-313: io.emit('reservationsUpdated', allReservations); res.json
A1DeleteEmit(c) ==
  /\ pc[c] = "a1d_emit"
  /\ Broadcast(allReservations[c])
  /\ Respond(c, 200)
  /\ UNCHANGED <<extraAdminSettings, hits, ADMIN_PASSWORD, server, store, nextId, settings, now, issued>>

A1Delete(c) ==
  \/ A1DeleteStart(c)
  \/ A1DeleteFindById(c)
  \/ A1DeleteDelete(c)
  \/ A1DeleteList(c)
  \/ A1DeleteEmit(c)

\* The first server, with the admin secret configured or not, on a
\* collection that is empty or holds two reservations, the window open.
A1Init ==
  /\ hits = 0
  /\ extraAdminSettings = 0
  /\ ADMIN_PASSWORD \in {Undefined, AdminSecret}
  /\ server = "app.js#1"
  /\ store \in {{}, {A1Reservation(1, <<"101", "Kim">>, <<"D1", "2", 5>>),
                     A1Reservation(2, <<"202", "Lee">>, <<"D1", "2", 6>>)}}
  /\ nextId = 3
  /\ InitCommon

A1Next == Tick \/ \E c \in Conns : A1Post(c) \/ A1DeleteAll(c) \/ A1Delete(c)

A1Spec == A1Init /\ [][A1Next]_vars

(***************************************************************************)
(* Admin operations of three servers: src/app.js third server (lines       *)
(* 632-997), src/unnamed/part_003 first server (lines 1-212) and           *)
(* src/unnamed/part_004.                                                   *)
(***************************************************************************)
\* Admin fields a request body may carry.
AdminBodies ==
  {[NoReq EXCEPT !.adminUsername = u, !.adminPassword = a] :
     u \in {"", "admin"}, a \in {Undefined, AdminSecret, WrongSecret}}

\* src/app.js line 969: the request reaches the handler, which has no check
\* before its first await.
A3AdminDeleteStart(c) ==
  /\ server = "app.js#3"
  /\ \E b \in AdminBodies, id \in StoreIds \cup {UnknownId} :
       /\ Accept(c)
       /\ Enter(c, [b EXCEPT !.method = "DELETE", !.id = id,
                             !.path = "/api/admin/reservations/:id"], "a3ad_delete")
  /\ UNCHANGED <<extraAdminSettings, hits, ADMIN_PASSWORD, server, store, nextId, settings, now, emitted, socket>>

\* src/app.js lines 973-979: findByIdAndDelete; without a deleted document
\* the handler answers at once.
A3AdminDeleteDelete(c) ==
  /\ pc[c] = "a3ad_delete"
  /\ IF findById(store, req[c].id) = NoRec
     THEN Respond(c, 200) /\ UNCHANGED store
     ELSE /\ store' = {x \in store : x.id # req[c].id}
          /\ Goto(c, "a3ad_list")
          /\ UNCHANGED locals
  /\ UNCHANGED <<extraAdminSettings, hits, ADMIN_PASSWORD, server, nextId, settings, now, issued, emitted, socket>>

\* src/app.js line 976: all = await Reservation.find({})
A3AdminDeleteList(c) ==
  /\ pc[c] = "a3ad_list"
  /\ allReservations' = [allReservations EXCEPT ![c] = store]
  /\ Goto(c, "a3ad_emit")
  /\ UNCHANGED <<extraAdminSettings, hits, ADMIN_PASSWORD, server, store, nextId, settings, now, issued, adminSettings,
                 conflictSeat, existingUser, emitted, socket>>

\* src/app.js lines 977-979: io.emit('reservationsUpdated', all); res.json
A3AdminDeleteEmit(c) ==
  /\ pc[c] = "a3ad_emit"
  /\ Broadcast(allReservations[c])
  /\ Respond(c, 200)
  /\ UNCHANGED <<extraAdminSettings, hits, ADMIN_PASSWORD, server, store, nextId, settings, now, issued>>

\* src/app.js line 984: this server has no /api/reservations/:id route, so
\* the path reaches this handler, which has no check.
A3DeleteAllStart(c) ==
  /\ server = "app.js#3"
  /\ \E b \in AdminBodies :
       /\ Accept(c)
       /\ Enter(c, [b EXCEPT !.method = "DELETE", !.path = "/api/reservations/all"],
                "a3all_deleteMany")
  /\ UNCHANGED <<extraAdminSettings, hits, ADMIN_PASSWORD, server, store, nextId, settings, now, emitted, socket>>

\* src/app.js line 986: await Reservation.deleteMany({})
A3DeleteAllDeleteMany(c) ==
  /\ pc[c] = "a3all_deleteMany"
  /\ store' = {}
  /\ Goto(c, "a3all_emit")
  /\ UNCHANGED <<extraAdminSettings, hits, ADMIN_PASSWORD, server, nextId, settings, now, issued, locals, emitted, socket>>

\* src/app.js lines 987-988: io.emit('reservationsUpdated', []); res.json
A3DeleteAllEmit(c) ==
  /\ pc[c] = "a3all_emit"
  /\ Broadcast({})
  /\ Respond(c, 200)
  /\ UNCHANGED <<extraAdminSettings, hits, ADMIN_PASSWORD, server, store, nextId, settings, now, issued>>

\* Bodies of PUT /api/admin-settings: a window and the admin fields.
PutSettingsInputs ==
  {[b EXCEPT !.method = "PUT", !.path = "/api/admin-settings",
             !.reservationStartTime = 0, !.reservationEndTime = MaxTime] :
     b \in AdminBodies}

\* src/app.js lines 896-897: the request reaches the handler.
A3PutSettingsStart(c) ==
  /\ server = "app.js#3"
  /\ \E q \in PutSettingsInputs : Accept(c) /\ Enter(c, q, "a3s_auth")
  /\ UNCHANGED <<extraAdminSettings, hits, ADMIN_PASSWORD, server, store, nextId, settings, now, emitted, socket>>

\* src/app.js line 898: if (adminPassword !== ADMIN_PASSWORD) -> 403
A3PutSettingsAuth(c) ==
  /\ pc[c] = "a3s_auth"
  /\ IF req[c].adminPassword # ADMIN_PASSWORD
     THEN Respond(c, 403)
     ELSE Goto(c, "a3s_update") /\ UNCHANGED locals
  /\ UNCHANGED <<extraAdminSettings, hits, ADMIN_PASSWORD, server, store, nextId, settings, now, issued, emitted, socket>>

\* src/app.js lines 901-905: AdminSetting.findOneAndUpdate(..., {upsert:true})
A3PutSettingsUpdate(c) ==
  /\ pc[c] = "a3s_update"
  /\ settings' = Setting(req[c].reservationStartTime, req[c].reservationEndTime)
  /\ Goto(c, "a3s_find")
  /\ UNCHANGED <<extraAdminSettings, hits, ADMIN_PASSWORD, server, store, nextId, now, issued, locals, emitted, socket>>

\* src/app.js line 906: settings = await AdminSetting.findOne(...)
A3PutSettingsFind(c) ==
  /\ pc[c] = "a3s_find"
  /\ adminSettings' = [adminSettings EXCEPT ![c] = settings]
  /\ Goto(c, "a3s_emit")
  /\ UNCHANGED <<extraAdminSettings, hits, ADMIN_PASSWORD, server, store, nextId, settings, now, issued, conflictSeat,
                 existingUser, allReservations, emitted, socket>>

\* src/app.js lines 907-908: io.emit('adminSettingsUpdated', settings); res.json
A3PutSettingsEmit(c) ==
  /\ pc[c] = "a3s_emit"
  /\ Respond(c, 200)
  /\ UNCHANGED <<extraAdminSettings, hits, ADMIN_PASSWORD, server, store, nextId, settings, now, issued, emitted, socket>>

A3Admin(c) ==
  \/ A3AdminDeleteStart(c)
  \/ A3AdminDeleteDelete(c)
  \/ A3AdminDeleteList(c)
  \/ A3AdminDeleteEmit(c)
  \/ A3DeleteAllStart(c)
  \/ A3DeleteAllDeleteMany(c)
  \/ A3DeleteAllEmit(c)
  \/ A3PutSettingsStart(c)
  \/ A3PutSettingsAuth(c)
  \/ A3PutSettingsUpdate(c)
  \/ A3PutSettingsFind(c)
  \/ A3PutSettingsEmit(c)

\* Bodies of DELETE /api/reservations/:id of part_003: a user request with a
\* password, or an admin request with some adminPassword.
P3DeleteInputs ==
  LET base(id) == [NoReq EXCEPT !.method = "DELETE", !.id = id]
  IN {[base(id) EXCEPT !.password = pw] : id \in StoreIds \cup {UnknownId}, pw \in Passwords}
     \cup {[base(id) EXCEPT !.isAdmin = TRUE, !.adminPassword = a] :
             id \in StoreIds, a \in {Undefined, AdminSecret, WrongSecret}}

\* part_003 lines 188-190: the request reaches the handler.
P3DeleteStart(c) ==
  /\ server = "part_003#1"
  /\ \E q \in P3DeleteInputs : Accept(c) /\ Enter(c, q, "p3d_findById")
  /\ UNCHANGED <<extraAdminSettings, hits, ADMIN_PASSWORD, server, store, nextId, settings, now, emitted, socket>>

\* part_003 lines 192-198: findById, then the admin check or the comparison
\* of the submitted password with the stored one.
P3DeleteFindById(c) ==
  /\ pc[c] = "p3d_findById"
  /\ LET r == findById(store, req[c].id)
     IN IF r = NoRec
        THEN Respond(c, 404)
        ELSE IF req[c].isAdmin /\ req[c].adminPassword # ADMIN_PASSWORD
        THEN Respond(c, 403)
        ELSE IF ~req[c].isAdmin /\ Plain(req[c].password) # r.password
        THEN Respond(c, 403)
        ELSE Goto(c, "p3d_delete") /\ UNCHANGED locals
  /\ UNCHANGED <<extraAdminSettings, hits, ADMIN_PASSWORD, server, store, nextId, settings, now, issued, emitted, socket>>

\* part_003 line 199: await Reservation.findByIdAndDelete(id)
P3DeleteDelete(c) ==
  /\ pc[c] = "p3d_delete"
  /\ store' = {x \in store : x.id # req[c].id}
  /\ Goto(c, "p3d_list")
  /\ UNCHANGED <<extraAdminSettings, hits, ADMIN_PASSWORD, server, nextId, settings, now, issued, locals, emitted, socket>>

\* part_003 line 200: await Reservation.find({})
P3DeleteList(c) ==
  /\ pc[c] = "p3d_list"
  /\ allReservations' = [allReservations EXCEPT ![c] = store]
  /\ Goto(c, "p3d_emit")
  /\ UNCHANGED <<extraAdminSettings, hits, ADMIN_PASSWORD, server, store, nextId, settings, now, issued, adminSettings,
                 conflictSeat, existingUser, emitted, socket>>

\* part_003 lines 200-201: io.emit('reservationsUpdated', ...); res.json
P3DeleteEmit(c) ==
  /\ pc[c] = "p3d_emit"
  /\ Broadcast(allReservations[c])
  /\ Respond(c, 200)
  /\ UNCHANGED <<extraAdminSettings, hits, ADMIN_PASSWORD, server, store, nextId, settings, now, issued>>

P3Delete(c) ==
  \/ P3DeleteStart(c)
  \/ P3DeleteFindById(c)
  \/ P3DeleteDelete(c)
  \/ P3DeleteList(c)
  \/ P3DeleteEmit(c)

\* part_004 lines 285-287: the request reaches the handler, which has no
\* check before its first await.
P4PutSettingsStart(c) ==
  /\ server = "part_004"
  /\ \E q \in PutSettingsInputs : Accept(c) /\ Enter(c, q, "p4s_update")
  /\ UNCHANGED <<extraAdminSettings, hits, ADMIN_PASSWORD, server, store, nextId, settings, now, emitted, socket>>

\* part_004 lines 288-292: AdminSetting.findOneAndUpdate(..., {new, upsert})
P4PutSettingsUpdate(c) ==
  /\ pc[c] = "p4s_update"
  /\ settings' = Setting(req[c].reservationStartTime, req[c].reservationEndTime)
  /\ adminSettings' = [adminSettings EXCEPT ![c] = settings']
  /\ Goto(c, "p4s_emit")
  /\ UNCHANGED <<extraAdminSettings, hits, ADMIN_PASSWORD, server, store, nextId, now, issued, conflictSeat,
                 existingUser, allReservations, emitted, socket>>

\* part_004 lines 294-295: io.emit('settingsUpdated', settings); res.json
P4PutSettingsEmit(c) ==
  /\ pc[c] = "p4s_emit"
  /\ Respond(c, 200)
  /\ UNCHANGED <<extraAdminSettings, hits, ADMIN_PASSWORD, server, store, nextId, settings, now, issued, emitted, socket>>

P4PutSettings(c) ==
  \/ P4PutSettingsStart(c)
  \/ P4PutSettingsUpdate(c)
  \/ P4PutSettingsEmit(c)

\* One of the three servers, with the admin secret configured or not, on a
\* collection that is empty or holds two reservations.
AdminInit ==
  /\ hits = 0
  /\ extraAdminSettings = 0
  /\ ADMIN_PASSWORD \in {Undefined, AdminSecret}
  /\ \/ /\ server \in {"app.js#3", "part_004"}
        /\ store \in {{}, {KimAt5(Hashed(PwA)), LeeAt6(Hashed(PwB))}}
     \/ /\ server = "part_003#1"
        /\ store \in {{}, {KimAt5(Plain(PwA)), LeeAt6(Plain(PwB))}}
  /\ nextId = 3
  /\ InitCommon

AdminNext == \E c \in Conns : A3Admin(c) \/ P3Delete(c) \/ P4PutSettings(c)

AdminSpec == AdminInit /\ [][AdminNext]_vars

(***************************************************************************)
(* Two POST /api/reservations requests of part_000 racing on an empty      *)
(* store while the window is open: both have passed validation and are     *)
(* about to read the AdminSetting document.                                *)
(***************************************************************************)
RaceInit(q1, q2) ==
  /\ hits = 0
  /\ extraAdminSettings = 0
  /\ ADMIN_PASSWORD = AdminSecret
  /\ server = "part_000"
  /\ store = {}
  /\ nextId = 1
  /\ settings = Setting(1, 1)
  /\ now = 1
  /\ issued = 2
  /\ pc = [c \in Conns |-> "p_settings"]
  /\ req = [c \in Conns |-> IF c = 1 THEN q1 ELSE q2]
  /\ resp = [c \in Conns |-> 0]
  /\ adminSettings = [c \in Conns |-> NoSetting]
  /\ conflictSeat = [c \in Conns |-> NoRec]
  /\ existingUser = [c \in Conns |-> NoRec]
  /\ allReservations = [c \in Conns |-> {}]
  /\ emitted = NoEmit
  /\ socket = NoSocket

\* Different identities, the same placement.
SeatRaceInit ==
  \E i1 \in Identities, i2 \in Identities, p \in Placements,
     pw1 \in Passwords, pw2 \in Passwords :
    /\ i1 # i2
    /\ RaceInit(PostReq(i1, p, pw1), PostReq(i2, p, pw2))

\* The steps of a POST handler that creates.
P0PostCreate(c) ==
  \/ P0PostSettings(c)
  \/ P0PostGate(c)
  \/ P0PostFindSeat(c)
  \/ P0PostFindUser(c)
  \/ P0PostSave(c)
  \/ P0PostList(c)
  \/ P0PostEmit(c)

SeatRaceNext == \E c \in Conns : P0PostCreate(c)

SeatRaceSpec == SeatRaceInit /\ [][SeatRaceNext]_vars

\* The same identity, two different placements.
IdentityRaceInit ==
  \E i \in Identities, p1 \in Placements, p2 \in Placements,
     pw1 \in Passwords, pw2 \in Passwords :
    /\ p1 # p2
    /\ RaceInit(PostReq(i, p1, pw1), PostReq(i, p2, pw2))

IdentityRaceNext == \E c \in Conns : P0PostCreate(c) \/ P0PostUpdate(c)

IdentityRaceSpec == IdentityRaceInit /\ [][IdentityRaceNext]_vars

(***************************************************************************)
(* src/unnamed/part_000: POST /api/reservations when a call to the store   *)
(* is rejected (connection lost, server selection timeout).  The           *)
(* AdminSetting lookup of line 210 is awaited before the try of line 218;  *)
(* every other store call is inside it.                                    *)
(***************************************************************************)
\* The steps of the handler that await a store call inside the try block.
P0PostTryLabels == {"p_findSeat", "p_findUser", "p_update", "p_save", "p_list"}

\* Line 210 rejects: the async handler's promise is rejected outside any
\* try.  What follows depends on the Express and Node versions the
\* deployment installs, which the repository does not pin: Express 4 drops
\* the rejection, so the request gets no response, and Node either only
\* warns or terminates the process, taking every request in flight with it;
\* Express 5 passes the rejection to its default error handler, which
\* answers 500.
P0PostSettingsFail(c) ==
  /\ pc[c] = "p_settings"
  /\ \/ /\ pc' = [pc EXCEPT ![c] = "hung"]
        /\ UNCHANGED <<req, resp, locals>>
     \/ /\ pc' = [d \in Conns |-> IF Free(d) THEN pc[d] ELSE "hung"]
        /\ UNCHANGED <<req, resp, locals>>
     \/ Respond(c, 500)
  /\ UNCHANGED <<extraAdminSettings, hits, ADMIN_PASSWORD, server, store, nextId, settings, now, issued, emitted, socket>>

\* Lines 219-237 reject inside the try: the catch of lines 240-245 answers,
\* and the error carries no duplicate-key code.
P0PostStoreFail(c) ==
  /\ pc[c] \in P0PostTryLabels
  /\ Respond(c, P0PostCatch(NoErrCode))
  /\ UNCHANGED <<extraAdminSettings, hits, ADMIN_PASSWORD, server, store, nextId, settings, now, issued, emitted, socket>>

FailNext ==
  Tick \/ \E c \in Conns : P0Post(c) \/ P0PostSettingsFail(c) \/ P0PostStoreFail(c)

FailSpec == P0Init /\ [][FailNext]_vars

(***************************************************************************)
(* src/app.js, third server (lines 632-997): the rate limiter of lines     *)
(* 686-694, mounted with app.use('/api/reservations', limiter) in front of *)
(* every route under that path.  One client address is modelled, so the    *)
(* limiter's store is the single counter hits.  A URL is the sequence of   *)
(* its path segments.                                                      *)
(***************************************************************************)
\* max: 30
LimiterMax == 30

\* app.use('/api/reservations', limiter)
A3LimiterMount == <<"api", "reservations">>

UrlReservations == <<"api", "reservations">>
UrlReservationsAll == <<"api", "reservations", "all">>

\* req.path as a middleware mounted at mount reads it: Express removes the
\* mount path from req.url while the middleware runs.
PathInMiddleware(url, mount) == SubSeq(url, Len(mount) + 1, Len(url))

\* skip: req => req.path === '/api/reservations/all'
A3LimiterSkip(url) == PathInMiddleware(url, A3LimiterMount) = UrlReservationsAll

ThrottleInputs ==
  {[q EXCEPT !.url = UrlReservations] : q \in VariantPostInputs}
  \cup {[b EXCEPT !.method = "DELETE", !.path = "/api/reservations/all",
                  !.url = UrlReservationsAll] : b \in AdminBodies}

\* A request under /api/reservations arrives and is handed to the limiter.
A3Arrive(c) ==
  /\ server = "app.js#3"
  /\ \E q \in ThrottleInputs : Accept(c) /\ Enter(c, q, "a3_limiter")
  /\ UNCHANGED <<extraAdminSettings, hits, ADMIN_PASSWORD, server, store, nextId, settings, now, emitted, socket>>

\* next(): the route that matches runs up to its first await.  Lines 984-986
\* for DELETE /api/reservations/all, lines 811-819 for POST /api/reservations.
A3Dispatch(c) ==
  IF req[c].method = "DELETE"
  THEN Goto(c, "a3all_deleteMany") /\ UNCHANGED locals
  ELSE IF MissingField(req[c])
  THEN Respond(c, 400)
  ELSE Goto(c, "a3_settings") /\ UNCHANGED locals

\* The limiter: a request that is not skipped is counted, and is answered
\* 429 when the count of the window exceeds max.
A3Limiter(c) ==
  /\ pc[c] = "a3_limiter"
  /\ IF A3LimiterSkip(req[c].url)
     THEN hits' = hits /\ A3Dispatch(c)
     ELSE /\ hits' = hits + 1
          /\ IF hits + 1 > LimiterMax THEN Respond(c, 429) ELSE A3Dispatch(c)
  /\ UNCHANGED <<extraAdminSettings, ADMIN_PASSWORD, server, store, nextId, settings, now, issued, emitted, socket>>

\* windowMs: 60000 has elapsed: the counter starts again.
A3LimiterReset ==
  /\ hits > 0
  /\ hits' = 0
  /\ UNCHANGED <<extraAdminSettings, ADMIN_PASSWORD, server, store, nextId, settings, now, issued, pc, req, resp,
                 locals, emitted, socket>>

\* The third server; the client has sent none, some or more than max
\* requests in the current window.
ThrottleInit ==
  /\ hits \in {0, LimiterMax - 1, LimiterMax, LimiterMax + 1}
  /\ extraAdminSettings = 0
  /\ ADMIN_PASSWORD = AdminSecret
  /\ server = "app.js#3"
  /\ store \in {{}, {KimAt5(Hashed(PwA)), LeeAt6(Hashed(PwB))}}
  /\ nextId = 3
  /\ InitCommon

ThrottleNext ==
  \/ A3LimiterReset
  \/ \E c \in Conns :
       \/ A3Arrive(c)
       \/ A3Limiter(c)
       \/ A3DeleteAllDeleteMany(c)
       \/ A3DeleteAllEmit(c)
       \/ A3PostSettings(c)
       \/ A3PostGate(c)
       \/ A3PostFindSeat(c)
       \/ A3PostFindUser(c)
       \/ A3PostSave(c)
       \/ A3PostInsert(c)
       \/ A3PostList(c)
       \/ A3PostEmit(c)

ThrottleSpec == ThrottleInit /\ [][ThrottleNext]_vars

(***************************************************************************)
(* src/unnamed/part_000: POST /api/reservations with the arrival of the    *)
(* request kept apart from the synchronous checks of lines 201-208, so     *)
(* that the request is known when they run.                                *)
(***************************************************************************)
\* A password of 50 characters that the weakness policy accepts.
PwLong == [i \in 1 .. 50 |-> IF i % 2 = 1 THEN "k" ELSE "9"]

\* Requests with the long password, besides those of P0PostInputs.
P0PostArriveInputs ==
  P0PostInputs \cup {PostReq(<<"101", "Kim">>, p, PwLong) : p \in Placements}

\* Line 200: the request reaches the handler with its parsed body.
P0PostArrive(c) ==
  /\ server = "part_000"
  /\ \E q \in P0PostArriveInputs : Accept(c) /\ Enter(c, q, "p_validate")
  /\ UNCHANGED <<extraAdminSettings, hits, ADMIN_PASSWORD, server, store, nextId, settings, now, emitted, socket>>

\* Lines 201-208: honeypot, required fields, weak password, in this order
\* and before the AdminSetting lookup of line 210.
P0PostValidate(c) ==
  /\ pc[c] = "p_validate"
  /\ IF req[c].honeypot_field \/ MissingField(req[c]) \/ isWeakPassword(req[c].password)
     THEN Respond(c, 400)
     ELSE Goto(c, "p_settings") /\ UNCHANGED locals
  /\ UNCHANGED <<extraAdminSettings, hits, ADMIN_PASSWORD, server, store, nextId, settings, now, issued, emitted, socket>>

OrderNext ==
  Tick \/ \E c \in Conns :
            P0PostArrive(c) \/ P0PostValidate(c) \/ P0PostCreate(c) \/ P0PostUpdate(c)

OrderSpec == P0Init /\ [][OrderNext]_vars

\* Line 303: a DELETE of /api/reservations/:id reaches the handler with its
\* parsed body; the password test of lines 305-308 is P0DeleteAllRouted.
P0DeleteArrive(c) ==
  /\ server = "part_000"
  /\ \E q \in P0DeleteInputs \cup {DeleteReq(id, PwLong) : id \in StoreIds} :
       Accept(c) /\ Enter(c, q, "d_route")
  /\ UNCHANGED <<extraAdminSettings, hits, ADMIN_PASSWORD, server, store, nextId, settings, now, emitted, socket>>

\* Creates, moves and cancels, with short and long passwords.
RoundTripNext ==
  \/ OrderNext
  \/ \E c \in Conns :
       \/ P0DeleteArrive(c)
       \/ P0DeleteAllRouted(c)
       \/ P0DeleteFindById(c)
       \/ P0DeleteDelete(c)
       \/ P0DeleteList(c)
       \/ P0DeleteEmit(c)

RoundTripSpec == P0Init /\ [][RoundTripNext]_vars

(***************************************************************************)
(* src/unnamed/part_001: reservations carry no password and an optional    *)
(* deviceIdentifier.  The steps of its handlers that read the settings,    *)
(* test the window, look up the placement and the identity, list and emit  *)
(* are those of the first server of src/app.js (POST) and of part_000      *)
(* (PUT, DELETE), statement for statement, and are reused under the same   *)
(* labels; the steps below are the ones that differ.                       *)
(***************************************************************************)
\* A reservation document of part_001 (schema of lines 64-72).
S1Reservation(id, i, p, dev) ==
  [id |-> id, roomNo |-> i[1], name |-> i[2], dormitory |-> p[1],
   floor |-> p[2], seat |-> p[3], password |-> Plain(NoPw),
   deviceIdentifier |-> dev]

Devices == {Undefined, "devA", "devB"}

\* The deviceIdentifier an update leaves in a document whose value was old.
\* An update whose deviceIdentifier is undefined either leaves the field as
\* it is (the key is dropped from the update) or clears it (the key is sent
\* and stored as null), depending on the Mongoose version installed.
S1DeviceWritten(old, dev) == IF dev = Undefined THEN {old, Undefined} ELSE {dev}

\* Mutant: the device check is applied to a document without a binding too.
S1DeviceMismatchStrict(r, dev) == r.deviceIdentifier # dev

\* Lines 234 and 279: the stored document has a binding and the request's
\* deviceIdentifier is not it.
S1DeviceMismatch(r, dev) ==
  ~Falsy(r.deviceIdentifier) /\ r.deviceIdentifier # dev

S1PostInputs ==
  {[PostReq(i, p, NoPw) EXCEPT !.deviceIdentifier = d] :
     i \in Identities, p \in Placements, d \in Devices}
  \cup {PostReq(<<"101", "">>, <<"D1", "2", 5>>, NoPw)}

\* Lines 165-169: honeypot and required fields.
S1PostStart(c) ==
  /\ server = "part_001"
  /\ \E q \in S1PostInputs :
       /\ Accept(c)
       /\ IF q.honeypot_field \/ q.roomNo = "" \/ q.name = "" \/ q.dormitory = ""
             \/ q.floor = ""
          THEN Respond(c, 400)
          ELSE Enter(c, q, "a1_settings")
  /\ UNCHANGED <<extraAdminSettings, hits, ADMIN_PASSWORD, server, store, nextId, settings, now, emitted, socket>>

\* Line 188: findByIdAndUpdate(existingUser._id, {dormitory, floor, seat,
\* createdAt, deviceIdentifier}); a document deleted meanwhile gives null,
\* which is answered like a success.  No deviceIdentifier is compared.
S1PostUpdate(c) ==
  /\ pc[c] = "a1_update"
  /\ LET cur == findById(store, existingUser[c].id)
     IN IF cur = NoRec
        THEN Goto(c, "a1_list") /\ UNCHANGED <<store, locals>>
        ELSE \E dev \in S1DeviceWritten(cur.deviceIdentifier, req[c].deviceIdentifier) :
               LET new == [P0PostUpdated(cur, req[c]) EXCEPT !.deviceIdentifier = dev]
               IN IF DuplicateKey(store, new)
                  THEN Respond(c, A1PostCatch(ErrDuplicateKey)) /\ UNCHANGED store
                  ELSE /\ store' = (store \ {cur}) \cup {new}
                       /\ Goto(c, "a1_list")
                       /\ UNCHANGED locals
  /\ UNCHANGED <<extraAdminSettings, hits, ADMIN_PASSWORD, server, nextId, settings, now, issued, emitted, socket>>

\* Lines 190-191: new Reservation({..., deviceIdentifier}).save()
S1PostSave(c) ==
  /\ pc[c] = "a1_save"
  /\ LET new == S1Reservation(nextId, ReqIdentityOf(req[c]), ReqPlacementOf(req[c]),
                              req[c].deviceIdentifier)
     IN IF DuplicateKey(store, new)
        THEN Respond(c, A1PostCatch(ErrDuplicateKey)) /\ UNCHANGED <<store, nextId>>
        ELSE /\ store' = store \cup {new}
             /\ nextId' = nextId + 1
             /\ Goto(c, "a1_list")
             /\ UNCHANGED locals
  /\ UNCHANGED <<extraAdminSettings, hits, ADMIN_PASSWORD, server, settings, now, issued, emitted, socket>>

\* Bodies of PUT /api/reservations/update/:id: the new identity and
\* placement, the requester and the device.
S1PutInputs ==
  {[PutReq(id, i, p, NoPw) EXCEPT !.requestingUserRoomNo = j[1],
                                  !.requestingUserName = j[2],
                                  !.requestingUserDormitory = "D1",
                                  !.deviceIdentifier = d] :
     id \in StoreIds \cup {UnknownId}, i \in {<<"101", "Kim">>}, j \in Identities,
     p \in Placements, d \in Devices}
  \cup {PutReq(1, <<"101", "">>, <<"D1", "2", 6>>, NoPw)}

\* Lines 208-214: honeypot and required fields.
S1PutStart(c) ==
  /\ server = "part_001"
  /\ \E q \in S1PutInputs :
       /\ Accept(c)
       /\ IF q.honeypot_field \/ q.roomNo = "" \/ q.name = "" \/ q.dormitory = ""
             \/ q.floor = ""
          THEN Respond(c, 400)
          ELSE Enter(c, q, "u_settings")
  /\ UNCHANGED <<extraAdminSettings, hits, ADMIN_PASSWORD, server, store, nextId, settings, now, emitted, socket>>

\* Lines 225-235: findById, the owner check, the device check.
S1PutFindById(c) ==
  /\ pc[c] = "u_findById"
  /\ LET existingReservation == findById(store, req[c].id)
     IN IF existingReservation = NoRec
        THEN Respond(c, 404)
        ELSE IF A1NotOwner(req[c], existingReservation)
        THEN Respond(c, 403)
        ELSE IF S1DeviceMismatch(existingReservation, req[c].deviceIdentifier)
        THEN Respond(c, 403)
        ELSE Goto(c, "u_findConflict") /\ UNCHANGED locals
  /\ UNCHANGED <<extraAdminSettings, hits, ADMIN_PASSWORD, server, store, nextId, settings, now, issued, emitted, socket>>

\* Lines 241-245 and the catch of 251-256: findByIdAndUpdate(id, {roomNo,
\* name, dormitory, floor, seat, createdAt, deviceIdentifier}); a document
\* deleted meanwhile gives null, which is answered like a success.
S1PutUpdate(c) ==
  /\ pc[c] = "u_update"
  /\ LET cur == findById(store, req[c].id)
     IN IF cur = NoRec
        THEN Goto(c, "u_list") /\ UNCHANGED <<store, locals>>
        ELSE \E dev \in S1DeviceWritten(cur.deviceIdentifier, req[c].deviceIdentifier) :
               LET new == [P0PutUpdated(cur, req[c]) EXCEPT !.deviceIdentifier = dev]
               IN IF DuplicateKey(store, new)
                  THEN Respond(c, P0PutCatch(ErrDuplicateKey)) /\ UNCHANGED store
                  ELSE /\ store' = (store \ {cur}) \cup {new}
                       /\ Goto(c, "u_list")
                       /\ UNCHANGED locals
  /\ UNCHANGED <<extraAdminSettings, hits, ADMIN_PASSWORD, server, nextId, settings, now, issued, emitted, socket>>

\* Bodies of DELETE /api/reservations/:id: a user request naming a requester
\* and a device, or an admin request.
S1DeleteInputs ==
  LET base(id) == [NoReq EXCEPT !.method = "DELETE", !.id = id]
  IN {[base(id) EXCEPT !.requestingUserRoomNo = j[1], !.requestingUserName = j[2],
                       !.requestingUserDormitory = "D1", !.deviceIdentifier = d] :
        id \in StoreIds \cup {UnknownId}, j \in Identities \cup {<<"101", "">>},
        d \in Devices}
     \cup {[base(id) EXCEPT !.isAdmin = TRUE, !.adminPassword = a] :
             id \in StoreIds, a \in {AdminSecret, WrongSecret}}

\* Lines 260-262: the request reaches the handler with its parsed body.
S1DeleteStart(c) ==
  /\ server = "part_001"
  /\ \E q \in S1DeleteInputs : Accept(c) /\ Enter(c, q, "d_findById")
  /\ UNCHANGED <<extraAdminSettings, hits, ADMIN_PASSWORD, server, store, nextId, settings, now, emitted, socket>>

\* Lines 265-281: findById, then the admin check, or the requester fields,
\* the owner check and the device check.
S1DeleteFindById(c) ==
  /\ pc[c] = "d_findById"
  /\ LET reservation == findById(store, req[c].id)
     IN IF reservation = NoRec
        THEN Respond(c, 404)
        ELSE IF req[c].isAdmin /\ A1AdminDenied(req[c].adminPassword)
        THEN Respond(c, 403)
        ELSE IF ~req[c].isAdmin /\ A1RequesterMissing(req[c])
        THEN Respond(c, 400)
        ELSE IF ~req[c].isAdmin /\ A1NotOwner(req[c], reservation)
        THEN Respond(c, 403)
        ELSE IF ~req[c].isAdmin
                /\ S1DeviceMismatch(reservation, req[c].deviceIdentifier)
        THEN Respond(c, 403)
        ELSE Goto(c, "d_delete") /\ UNCHANGED locals
  /\ UNCHANGED <<extraAdminSettings, hits, ADMIN_PASSWORD, server, store, nextId, settings, now, issued, emitted, socket>>

\* part_001 with the window open, on a collection that is empty or holds a
\* reservation bound to a device and one without a binding.
S1Init ==
  /\ hits = 0
  /\ extraAdminSettings = 0
  /\ ADMIN_PASSWORD = AdminSecret
  /\ server = "part_001"
  /\ store \in {{}, {S1Reservation(1, <<"101", "Kim">>, <<"D1", "2", 5>>, "devA"),
                     S1Reservation(2, <<"202", "Lee">>, <<"D1", "2", 6>>, Undefined)}}
  /\ nextId = 3
  /\ InitCommon
  /\ settings = Setting(1, 1)
  /\ now = 1

S1Post(c) ==
  \/ S1PostStart(c)
  \/ A1PostSettings(c)
  \/ A1PostGate(c)
  \/ A1PostFindSeat(c)
  \/ A1PostFindUser(c)
  \/ S1PostUpdate(c)
  \/ S1PostSave(c)
  \/ A1PostList(c)
  \/ A1PostEmit(c)

S1Put(c) ==
  \/ S1PutStart(c)
  \/ P0PutSettings(c)
  \/ P0PutGate(c)
  \/ S1PutFindById(c)
  \/ P0PutFindConflict(c)
  \/ S1PutUpdate(c)
  \/ P0PutList(c)
  \/ P0PutEmit(c)

S1Delete(c) ==
  \/ S1DeleteStart(c)
  \/ S1DeleteFindById(c)
  \/ P0DeleteDelete(c)
  \/ P0DeleteList(c)
  \/ P0DeleteEmit(c)

S1Next == Tick \/ \E c \in Conns : S1Post(c) \/ S1Put(c) \/ S1Delete(c)

S1Spec == S1Init /\ [][S1Next]_vars

(***************************************************************************)
(* src/unnamed/part_000: PUT /api/admin-settings (lines 370-401), racing   *)
(* with POST /api/reservations.  The clock stands still, so the window     *)
(* changes only through the admin's request.                               *)
(***************************************************************************)
\* Bodies of PUT /api/admin-settings: the whole clock range as the window,
\* or no bounds, with the admin fields.
P0AdminSettingsInputs ==
  {[NoReq EXCEPT !.method = "PUT", !.path = "/api/admin-settings",
                 !.adminUsername = u, !.adminPassword = a,
                 !.reservationStartTime = w[1], !.reservationEndTime = w[2]] :
     u \in {"", "admin", "mallory"}, a \in {Undefined, AdminSecret, WrongSecret},
     w \in {<<0, MaxTime>>, <<Null, Null>>}}

\* Lines 370-372: the request reaches the handler with its parsed body.
P0AdminSettingsStart(c) ==
  /\ server = "part_000"
  /\ \E q \in P0AdminSettingsInputs : Accept(c) /\ Enter(c, q, "s_auth")
  /\ UNCHANGED <<extraAdminSettings, hits, ADMIN_PASSWORD, server, store, nextId, settings, now, emitted, socket>>

\* Lines 375-386: both admin fields are required (400), the name must be on
\* the allow-list (403) and the password must be ADMIN_PASSWORD (401).
P0AdminSettingsAuth(c) ==
  /\ pc[c] = "s_auth"
  /\ IF req[c].adminUsername = "" \/ Falsy(req[c].adminPassword)
     THEN Respond(c, 400)
     ELSE IF req[c].adminUsername \notin ADMIN_USERNAMES
     THEN Respond(c, 403)
     ELSE IF req[c].adminPassword # ADMIN_PASSWORD
     THEN Respond(c, 401)
     ELSE Goto(c, "s_update") /\ UNCHANGED locals
  /\ UNCHANGED <<extraAdminSettings, hits, ADMIN_PASSWORD, server, store, nextId, settings, now, issued, emitted, socket>>

\* Lines 389-393: AdminSetting.findOneAndUpdate(..., {new, upsert})
P0AdminSettingsUpdate(c) ==
  /\ pc[c] = "s_update"
  /\ settings' = Setting(req[c].reservationStartTime, req[c].reservationEndTime)
  /\ adminSettings' = [adminSettings EXCEPT ![c] = settings']
  /\ Goto(c, "s_emit")
  /\ UNCHANGED <<extraAdminSettings, hits, ADMIN_PASSWORD, server, store, nextId, now, issued, conflictSeat,
                 existingUser, allReservations, emitted, socket>>

\* Lines 395-396: io.emit('settingsUpdated', settings); res.json
P0AdminSettingsEmit(c) ==
  /\ pc[c] = "s_emit"
  /\ Respond(c, 200)
  /\ UNCHANGED <<extraAdminSettings, hits, ADMIN_PASSWORD, server, store, nextId, settings, now, issued, emitted, socket>>

P0AdminSettings(c) ==
  \/ P0AdminSettingsStart(c)
  \/ P0AdminSettingsAuth(c)
  \/ P0AdminSettingsUpdate(c)
  \/ P0AdminSettingsEmit(c)

WindowRaceInit == P0Init /\ now = 1

WindowRaceNext == \E c \in Conns : P0Post(c) \/ P0AdminSettings(c)

WindowRaceSpec == WindowRaceInit /\ [][WindowRaceNext]_vars

(***************************************************************************)
(* src/app.js, first server: two cancels of the same reservation, both     *)
(* authorized, both in flight before either has read the store.            *)
(***************************************************************************)
\* A DELETE /api/reservations/:id body that passes the checks of lines
\* 293-306 for document r: the admin with the secret, or the owner.
A1AuthorizedCancels(r) ==
  LET base == [NoReq EXCEPT !.method = "DELETE", !.id = r.id]
  IN {[base EXCEPT !.isAdmin = TRUE, !.adminPassword = AdminSecret],
      [base EXCEPT !.requestingUserRoomNo = r.roomNo,
                   !.requestingUserName = r.name,
                   !.requestingUserDormitory = r.dormitory]}

CancelRaceStore ==
  {A1Reservation(1, <<"101", "Kim">>, <<"D1", "2", 5>>),
   A1Reservation(2, <<"202", "Lee">>, <<"D1", "2", 6>>)}

\* Both handlers are at line 285, about to await Reservation.findById(id).
CancelRaceInit ==
  \E r \in CancelRaceStore :
    \E q1 \in A1AuthorizedCancels(r), q2 \in A1AuthorizedCancels(r) :
      /\ hits = 0
      /\ extraAdminSettings = 0
      /\ ADMIN_PASSWORD = AdminSecret
      /\ server = "app.js#1"
      /\ store = CancelRaceStore
      /\ nextId = 3
      /\ settings = Setting(1, 1)
      /\ now = 1
      /\ issued = 2
      /\ pc = [c \in Conns |-> "a1d_findById"]
      /\ req = [c \in Conns |-> IF c = 1 THEN q1 ELSE q2]
      /\ resp = [c \in Conns |-> 0]
      /\ adminSettings = [c \in Conns |-> NoSetting]
      /\ conflictSeat = [c \in Conns |-> NoRec]
      /\ existingUser = [c \in Conns |-> NoRec]
      /\ allReservations = [c \in Conns |-> {}]
      /\ emitted = NoEmit
      /\ socket = NoSocket

CancelRaceNext ==
  \E c \in Conns :
    \/ A1DeleteFindById(c)
    \/ A1DeleteDelete(c)
    \/ A1DeleteList(c)
    \/ A1DeleteEmit(c)

CancelRaceSpec == CancelRaceInit /\ [][CancelRaceNext]_vars

(***************************************************************************)
(* src/unnamed/part_000: the handlers of Spec on a collection that holds   *)
(* one reservation, so that a placement is free to move to and the         *)
(* placement left behind can be booked again.                              *)
(***************************************************************************)
ReuseInit ==
  /\ hits = 0
  /\ extraAdminSettings = 0
  /\ ADMIN_PASSWORD = AdminSecret
  /\ server = "part_000"
  /\ store = {KimAt5(Hashed(PwA))}
  /\ nextId = 3
  /\ InitCommon

ReuseSpec == ReuseInit /\ [][Next]_vars

(***************************************************************************)
(* src/unnamed/part_000: GET /api/admin-settings (lines 355-367), which    *)
(* creates the default AdminSetting document when it finds none, together  *)
(* with PUT /api/admin-settings (upsert).                                  *)
(***************************************************************************)
\* Mutant: the AdminSetting collection has no unique index on key.
AdminSettingNoIndex(a) == FALSE

\* adminSettingSchema, key: { type: String, unique: true }: inserting a
\* document with key 'reservationTimes' is rejected (E11000) when the
\* collection holds one.
AdminSettingDuplicateKey(a) == a.present

\* Line 355: the request reaches the handler; it has no parameters.
P0GetSettingsStart(c) ==
  /\ server = "part_000"
  /\ Accept(c)
  /\ Enter(c, [NoReq EXCEPT !.method = "GET", !.path = "/api/admin-settings"], "g_find")
  /\ UNCHANGED <<extraAdminSettings, hits, ADMIN_PASSWORD, server, store, nextId, settings, now, emitted, socket>>

\* Lines 357-358 and 362: AdminSetting.findOne({ key: 'reservationTimes' });
\* a document found is the answer.
P0GetSettingsFind(c) ==
  /\ pc[c] = "g_find"
  /\ IF settings.present
     THEN Respond(c, 200)
     ELSE Goto(c, "g_save") /\ UNCHANGED locals
  /\ UNCHANGED <<extraAdminSettings, hits, ADMIN_PASSWORD, server, store, nextId, settings, now, issued, emitted, socket>>

\* Lines 359-362 and the catch of 363-366: new AdminSetting({ key }).save()
\* inserts a document with null bounds; a rejected insert is answered 500.
\* An inserted document is the one findOne returns from then on if the
\* collection held none, and an extra one otherwise.
P0GetSettingsSave(c) ==
  /\ pc[c] = "g_save"
  /\ IF AdminSettingDuplicateKey(settings)
     THEN Respond(c, 500) /\ UNCHANGED <<settings, extraAdminSettings>>
     ELSE /\ IF settings.present
             THEN extraAdminSettings' = extraAdminSettings + 1 /\ UNCHANGED settings
             ELSE settings' = Setting(Null, Null) /\ UNCHANGED extraAdminSettings
          /\ Respond(c, 200)
  /\ UNCHANGED <<hits, ADMIN_PASSWORD, server, store, nextId, now, issued, emitted, socket>>

P0GetSettings(c) ==
  \/ P0GetSettingsStart(c)
  \/ P0GetSettingsFind(c)
  \/ P0GetSettingsSave(c)

SingletonNext == \E c \in Conns : P0GetSettings(c) \/ P0AdminSettings(c)

SingletonSpec == P0Init /\ [][SingletonNext]_vars

(***************************************************************************)
(* src/unnamed/part_000: isWeakPassword applied by POST /api/reservations  *)
(* (lines 207-208) to passwords built around the patterns it looks for.    *)
(***************************************************************************)
\* Four-character cores: the heads of the patterns, runs in both directions,
\* repetitions, upper case, and two that match nothing.
WeakCores ==
  {<<"a","b","c","d">>, <<"q","w","e","r">>, <<"a","s","d","f">>,
   <<"z","x","c","v">>, <<"Q","W","E","R">>, <<"1","2","3","4">>,
   <<"4","3","2","1">>, <<"d","c","b","a">>, <<"7","7","7","7">>,
   <<"\n","\n","\n","\n">>, <<"k","9","x","m">>, <<"1","2","3","5">>}

\* Characters put before and after a core.
WeakExtras == {"e", "t", "y", "p", "g", "b", "5", "7", "Z"}

WeakAffixes(n) == UNION {[1 .. k -> WeakExtras] : k \in 0 .. n}

WeakCandidates ==
  {pre \o core \o suf :
     pre \in WeakAffixes(1), core \in WeakCores, suf \in WeakAffixes(2)}

\* One POST with every field present has arrived and is about to run the
\* checks of lines 201-208.
WeakInit ==
  \E pw \in WeakCandidates :
    /\ extraAdminSettings = 0
    /\ hits = 0
    /\ ADMIN_PASSWORD = AdminSecret
    /\ server = "part_000"
    /\ store = {LeeAt6(Hashed(PwB))}
    /\ nextId = 3
    /\ settings = Setting(1, 1)
    /\ now = 1
    /\ issued = 1
    /\ pc = [c \in Conns |-> IF c = 1 THEN "p_validate" ELSE "idle"]
    /\ req = [c \in Conns |->
                IF c = 1 THEN PostReq(<<"101", "Kim">>, <<"D1", "2", 5>>, pw)
                ELSE NoReq]
    /\ resp = [c \in Conns |-> 0]
    /\ adminSettings = [c \in Conns |-> NoSetting]
    /\ conflictSeat = [c \in Conns |-> NoRec]
    /\ existingUser = [c \in Conns |-> NoRec]
    /\ allReservations = [c \in Conns |-> {}]
    /\ emitted = NoEmit
    /\ socket = NoSocket

WeakNext == \E c \in Conns : P0PostValidate(c)

WeakSpec == WeakInit /\ [][WeakNext]_vars

(***************************************************************************)
(* Properties.                                                             *)
(***************************************************************************)
ReqIdentity(c) == <<req[c].roomNo, req[c].name>>
ReqPlacement(c) == <<req[c].dormitory, req[c].floor, req[c].seat>>

\* The handler on connection c takes a step.
StepOf(c) == pc'[c] # pc[c]

\* C1 (part_000): in every reachable state no two reservation documents
\* share (roomNo, name) and no two share (dormitory, floor, seat), under
\* any interleaving of the POST, PUT and DELETE handlers (a DELETE of
\* /api/reservations/all is routed to the DELETE /:id handler).
C1_Uniqueness ==
  \A x, y \in store :
    x # y => IdentityOf(x) # IdentityOf(y) /\ PlacementOf(x) # PlacementOf(y)

\* A create whose lookups found nothing is about to insert a key that another
\* request has taken meanwhile.
C1_Witness ==
  \E c \in Conns :
    /\ pc[c] = "p_save"
    /\ conflictSeat[c] = NoRec
    /\ \E x \in store : IdentityOf(x) = ReqIdentity(c) \/ PlacementOf(x) = ReqPlacement(c)

AllDone == \A c \in Conns : pc[c] = "done"

\* C2 (part_000, SeatRaceSpec): two creates by different identities for the
\* same free placement: in every interleaving the store never holds two
\* documents for the placement, no request is answered 500, a handler that
\* has not answered can always take its next step, and once both have
\* answered exactly one got 200, the other 409, and the store holds exactly
\* one document.
C2_SeatRace ==
  /\ \A x, y \in store : x # y => PlacementOf(x) # PlacementOf(y)
  /\ \A c \in Conns : resp[c] \in {0, 200, 409}
  /\ \A c \in Conns : pc[c] # "done" => ENABLED P0PostCreate(c)
  /\ AllDone => /\ \E c, d \in Conns : resp[c] = 200 /\ resp[d] = 409
                /\ Cardinality(store) = 1

\* One handler saw the placement free and is about to insert; the other has
\* inserted already.
C2_Witness ==
  \E c, d \in Conns :
    /\ pc[c] = "p_save" /\ conflictSeat[c] = NoRec
    /\ pc[d] \in {"p_list", "p_emit", "done"}
    /\ Cardinality(store) = 1

\* C3 as stated (part_000, IdentityRaceSpec): two creates by one identity
\* for two free placements: exactly one is answered 200, the other 409, and
\* the store ends with exactly one document.
C3_Original ==
  AllDone => /\ \E c, d \in Conns : resp[c] = 200 /\ resp[d] = 409
             /\ Cardinality(store) = 1

\* C3 as amended: the store never holds two documents for the identity and
\* ends with exactly one; at least one request is answered 200; the other is
\* answered 409 when its insert loses the race, and otherwise is handled as
\* a move of the winner's document, which goes ahead only when its password
\* verifies against the winner's hash (200) and is answered 401 when not;
\* no request is answered 500.
C3_IdentityRace ==
  /\ \A x, y \in store : x # y => IdentityOf(x) # IdentityOf(y)
  /\ \A c \in Conns : resp[c] \in {0, 200, 401, 409}
  /\ \A c \in Conns :
       pc[c] = "p_update" => /\ existingUser[c] \in store
                             /\ bcryptCompare(req[c].password, existingUser[c].password)
  /\ AllDone => /\ \E c \in Conns : resp[c] = 200
                /\ Cardinality(store) = 1

\* Both requests were answered 200: the second moved the document the first
\* created.
C3_Witness ==
  /\ AllDone
  /\ \A c \in Conns : resp[c] = 200
  /\ Cardinality(store) = 1

\* The requested placement is held by a document of another identity, and
\* the handler's placement lookup returned that document.
C5_HeldByOther(c) ==
  \E x \in store :
    /\ PlacementOf(x) = ReqPlacement(c)
    /\ IdentityOf(x) # ReqIdentity(c)
    /\ conflictSeat[c] = x

\* C5 (part_000, POST): when the handler decides (after its identity
\* lookup) and the requested placement is held by a document that is not the
\* requester's own, the request is answered 409 and the store is unchanged,
\* whether or not the requester has a reservation or a correct password.
C5_TieBreak ==
  [][\A c \in Conns :
       (pc[c] = "p_findUser" /\ StepOf(c) /\ C5_HeldByOther(c))
         => (pc'[c] = "done" /\ resp'[c] = 409 /\ store' = store)]_vars

\* The requester has a reservation elsewhere, submits its correct password,
\* and asks for a placement another identity holds.
C5_Witness ==
  \E c \in Conns :
    /\ pc[c] = "p_findUser"
    /\ C5_HeldByOther(c)
    /\ \E x \in store : /\ IdentityOf(x) = ReqIdentity(c)
                        /\ bcryptCompare(req[c].password, x.password)

\* The requester's own document x sits at the requested placement and the
\* submitted password verifies against it.
C6_OwnAt(c, x) ==
  /\ x \in store
  /\ IdentityOf(x) = ReqIdentity(c)
  /\ PlacementOf(x) = ReqPlacement(c)
  /\ bcryptCompare(req[c].password, x.password)

\* C6 (part_000, POST): an identity that owns placement P and re-submits P
\* with its correct password is not answered 409: the handler goes on to
\* the update, the update leaves the store as it is (same document at P,
\* same number of documents), and the request is answered 200.
C6_SelfExempt ==
  [][\A c \in Conns :
       /\ (pc[c] = "p_findUser" /\ StepOf(c) /\ C6_OwnAt(c, conflictSeat[c]))
            => (pc'[c] = "p_update" /\ store' = store)
       /\ (pc[c] = "p_update" /\ StepOf(c) /\ C6_OwnAt(c, existingUser[c]))
            => (pc'[c] = "p_list" /\ store' = store)
       /\ (pc[c] = "p_emit" /\ StepOf(c) /\ C6_OwnAt(c, existingUser[c]))
            => (pc'[c] = "done" /\ resp'[c] = 200 /\ store' = store)]_vars

\* A re-submission of the own placement has been written and is about to be
\* answered.
C6_Witness ==
  \E c \in Conns : pc[c] = "p_emit" /\ C6_OwnAt(c, existingUser[c])

\* The booking window is closed at time t under the AdminSetting document a.
WindowClosed(a, t) ==
  \/ ~a.present
  \/ a.reservationStartTime = Null
  \/ a.reservationEndTime = Null
  \/ t < a.reservationStartTime
  \/ t > a.reservationEndTime

\* C7 (part_000, POST and PUT): a request that passed validation is answered
\* 403, and the store is unchanged, whenever at its gate the AdminSetting
\* document is absent, has a null bound, or now is outside [start, end].
C7_WindowGate ==
  [][\A c \in Conns :
       (pc[c] \in {"p_gate", "u_gate"} /\ StepOf(c) /\ WindowClosed(settings, now))
         => (pc'[c] = "done" /\ resp'[c] = 403 /\ store' = store)]_vars

\* A 403 was answered after the window's end while every placement is free.
C7_Witness ==
  \E c \in Conns :
    /\ pc[c] = "done" /\ resp[c] = 403
    /\ store = {}
    /\ settings.present /\ settings.reservationEndTime # Null
    /\ now > settings.reservationEndTime

\* The document an owner request is aimed at: the requester's own for POST,
\* the one named by :id for PUT and DELETE.
TargetOf(c) ==
  IF req[c].method = "POST" THEN findOneByUser(store, req[c])
  ELSE IF req[c].id = NotAnId THEN NoRec
  ELSE findById(store, req[c].id)

\* The submitted password does not verify against the target's stored hash.
WrongPassword(c) ==
  /\ req[c] # NoReq
  /\ TargetOf(c) # NoRec
  /\ ~bcryptCompare(req[c].password, TargetOf(c).password)

AtCredentialCheck(c) == pc[c] \in {"p_findUser", "u_findById", "d_findById"}

\* C8 as stated (part_000): a move or cancel whose password does not verify
\* against the stored hash is answered 401 or 403 and changes nothing.
C8_Original ==
  [][\A c \in Conns :
       (AtCredentialCheck(c) /\ StepOf(c) /\ WrongPassword(c))
         => (pc'[c] = "done" /\ resp'[c] \in {401, 403} /\ store' = store)]_vars

\* C8 as amended: such a request is answered 401 at its credential check,
\* or, for POST, 409 when the requested placement is held by another
\* document (that test comes first); and no step of a request whose password
\* does not verify against its target changes the store.
C8_CredentialGate ==
  [][\A c \in Conns :
       /\ (AtCredentialCheck(c) /\ StepOf(c) /\ WrongPassword(c))
            => /\ pc'[c] = "done"
               /\ resp'[c] \in (IF req[c].method = "POST" THEN {401, 409} ELSE {401})
       /\ (StepOf(c) /\ WrongPassword(c)) => store' = store]_vars

\* A request was answered 401 and both initial documents are still as they
\* were.
C8_Witness ==
  /\ \E c \in Conns : pc[c] = "done" /\ resp[c] = 401
  /\ store = {KimAt5(Hashed(PwA)), LeeAt6(Hashed(PwB))}

\* The write the handler on c is about to issue is rejected by a unique
\* index: the placement (or, for an insert, the identity) belongs to another
\* document, and for an update the own document is still there.
RejectedByIndex(c) ==
  /\ existingUser[c] = NoRec \/ findById(store, existingUser[c].id) # NoRec
  /\ \E x \in store :
       /\ x.id # existingUser[c].id
       /\ PlacementOf(x) = ReqPlacement(c) \/ IdentityOf(x) = ReqIdentity(c)

\* C4 (src/app.js third server, part_003 first server): whenever the insert
\* or the in-place update of POST /api/reservations is rejected by a unique
\* index after the pre-check passed, the response is 409.
C4_LateConflict409 ==
  [][\A c \in Conns :
       (pc[c] \in {"a3_save", "a3_insert", "p3_update", "p3_save"}
        /\ StepOf(c) /\ RejectedByIndex(c))
         => (pc'[c] = "done" /\ resp'[c] = 409)]_vars

\* The requester has a document whose stored password differs from the
\* submitted one (part_003 stores passwords as submitted).
P3WrongPassword(c) ==
  /\ server = "part_003#1"
  /\ req[c] # NoReq
  /\ \E x \in store : IdentityOf(x) = ReqIdentity(c) /\ x.password # Plain(req[c].password)

\* C9 (part_003 first server): a POST for an identity that has a
\* reservation, with a password different from the stored one, is answered
\* 401 once the placement test has passed, and no step of it changes the
\* stored document.
C9_MoveCredentialGate ==
  [][\A c \in Conns :
       /\ (pc[c] = "p3_findSeat" /\ StepOf(c) /\ P3WrongPassword(c)
           /\ findOneBySeat(store, req[c]).id \in {NoId, existingUser[c].id})
            => (pc'[c] = "done" /\ resp'[c] = 401)
       /\ (StepOf(c) /\ P3WrongPassword(c)) => store' = store]_vars

\* C10 (part_000): an accepted move, through POST or PUT, replaces one
\* document by one with the same id, roomNo, name and password hash, and
\* leaves every other document alone.
C10_MovePreservesIdentity ==
  [][\A c \in Conns :
       (pc[c] \in {"p_update", "u_update"} /\ pc'[c] \in {"p_list", "u_list"})
         => \E x \in store, y \in store' :
               /\ x.id = y.id
               /\ store' \ {y} = store \ {x}
               /\ Cardinality(store') = Cardinality(store)
               /\ y.roomNo = x.roomNo /\ y.name = x.name
               /\ y.password = x.password]_vars

\* No other request is in flight, and none was while the request on c or an
\* earlier one was handled: a request takes the first free connection, so
\* the other connections have never been used.
Sequential(c) == \A d \in Conns \ {c} : pc[d] = "idle"

C16_AdminCancel ==
  [][\A c \in Conns :
       LET target == findById(store, req[c].id)
       IN /\ (pc[c] = "a1d_findById" /\ StepOf(c) /\ target # NoRec /\ req[c].isAdmin)
               => IF ~Falsy(ADMIN_PASSWORD) /\ req[c].adminPassword = ADMIN_PASSWORD
                  THEN pc'[c] = "a1d_delete"
                  ELSE pc'[c] = "done" /\ resp'[c] = 403
          /\ (pc[c] = "a1d_delete" /\ StepOf(c) /\ target # NoRec)
               => (store' = store \ {target} /\ pc'[c] = "a1d_list")
          /\ (StepOf(c) /\ req[c].isAdmin
              /\ (Falsy(ADMIN_PASSWORD) \/ req[c].adminPassword # ADMIN_PASSWORD))
               => store' = store]_vars

\* An admin request that names no requester has deleted a reservation.
C16_Witness ==
  \E c \in Conns :
    /\ pc[c] = "a1d_list"
    /\ req[c].isAdmin /\ req[c].requestingUserName = ""
    /\ req[c].id \in {1, 2} /\ findById(store, req[c].id) = NoRec

\* C12 (part_000, BulkSpec): a DELETE of /api/reservations/all with an
\* allow-listed adminUsername and no reservation password is not handed to
\* the handler of /api/reservations/:id, and is answered 200 with the store
\* empty.
C12_BulkCancelReachable ==
  [][\A c \in Conns :
       (pc[c] = "d_route" /\ StepOf(c)
        /\ req[c].adminUsername \in ADMIN_USERNAMES /\ req[c].password = NoPw)
         => /\ pc'[c] # "d_findById"
            /\ pc'[c] = "done" => (resp'[c] = 200 /\ store' = {})]_vars

\* The request on c does not carry the configured admin secret, or, on the
\* server that has an allow-list, an allow-listed admin name.
NoAdminCredential(c) ==
  \/ Falsy(ADMIN_PASSWORD)
  \/ req[c].adminPassword # ADMIN_PASSWORD
  \/ server = "app.js#3" /\ req[c].adminUsername \notin ADMIN_USERNAMES

\* C13 (AdminSpec; src/app.js third server DELETE
\* /api/admin/reservations/:id and DELETE /api/reservations/all, part_004 PUT
\* /api/admin-settings): a request without the admin credential changes no
\* reservation and no setting, and is answered 401 or 403.
C13_AdminOnly ==
  [][\A c \in Conns :
       (StepOf(c) /\ NoAdminCredential(c)
        /\ pc[c] \in {"a3ad_delete", "a3ad_list", "a3ad_emit", "a3all_deleteMany",
                      "a3all_emit", "p4s_update", "p4s_emit"})
         => /\ store' = store /\ settings' = settings
            /\ pc'[c] = "done" => resp'[c] \in {401, 403}]_vars

\* C14 (AdminSpec; part_003 first server DELETE /api/reservations/:id with
\* isAdmin, src/app.js third server PUT /api/admin-settings): with
\* ADMIN_PASSWORD unset no such request is accepted: it deletes no
\* reservation, changes no setting and is not answered 200.
C14_FailClosed ==
  [][\A c \in Conns :
       (StepOf(c) /\ Falsy(ADMIN_PASSWORD)
        /\ \/ pc[c] \in {"p3d_findById", "p3d_delete", "p3d_list", "p3d_emit"}
              /\ req[c].isAdmin
           \/ pc[c] \in {"a3s_auth", "a3s_update", "a3s_find", "a3s_emit"})
         => /\ store' = store /\ settings' = settings
            /\ pc'[c] = "done" => resp'[c] # 200]_vars

\* C15 (part_000, LoginSpec): POST /api/admin-login answers 400 when
\* username or password is missing, else 500 when ADMIN_PASSWORD is not
\* configured, else 200 exactly when username is in ADMIN_USERNAMES and
\* password equals ADMIN_PASSWORD, else 401; it changes no reservation and
\* no setting.
C15_VerifyAdmin ==
  [][\A c \in Conns :
       (pc[c] = "l_check" /\ StepOf(c))
         => LET missing == req[c].username \in {Undefined, ""}
                           \/ req[c].adminPassword \in {Undefined, ""}
                unconfigured == ADMIN_PASSWORD \in {Undefined, ""}
                verified == req[c].username \in ADMIN_USERNAMES
                            /\ req[c].adminPassword = ADMIN_PASSWORD
            IN /\ pc'[c] = "done"
               /\ store' = store /\ settings' = settings
               /\ missing => resp'[c] = 400
               /\ (~missing /\ unconfigured) => resp'[c] = 500
               /\ (~missing /\ ~unconfigured /\ verified) => resp'[c] = 200
               /\ (~missing /\ ~unconfigured /\ ~verified) => resp'[c] = 401
               /\ resp'[c] = 200 => (verified /\ ~unconfigured)]_vars

\* A login has succeeded while an earlier one was refused with 401.
C15_Witness ==
  \E c, d \in Conns : /\ pc[c] = "done" /\ resp[c] = 200
                      /\ pc[d] = "done" /\ resp[d] = 401

EmitLabels == {"p_emit", "u_emit", "d_emit"}

\* C17 (part_000): when no other request is in flight, the
\* reservationsUpdated payload emitted by an accepted create, move or cancel
\* is exactly the set of documents in the store after the mutation, and the
\* request is answered 200.
C17_NotifierComplete ==
  [][\A c \in Conns :
       (pc[c] \in EmitLabels /\ StepOf(c) /\ Sequential(c))
         => /\ emitted'.sent /\ emitted'.payload = store'
            /\ store' = store
            /\ pc'[c] = "done" /\ resp'[c] = 200]_vars

\* A request handled alone has changed the collection (which started with no
\* or two documents) and broadcast the one document it holds now.
C17_Witness ==
  \E c \in Conns :
    /\ Sequential(c) /\ pc[c] = "done" /\ resp[c] = 200
    /\ emitted.sent /\ emitted.payload = store
    /\ Cardinality(store) = 1

\* C18 (part_000): under any interleaving, at the moment a
\* reservationsUpdated event is emitted its payload equals the store's
\* current set of documents.
C18_BroadcastIsStore ==
  [][\A c \in Conns :
       (pc[c] \in EmitLabels /\ StepOf(c)) => emitted'.payload = store']_vars

\* C20 (part_000, DELETE /api/reservations/:id): a cancel of an existing
\* document with its correct password goes through and removes the
\* document, whatever the AdminSetting document and the clock say.
C20_CancelNotGated ==
  [][\A c \in Conns :
       LET target == findById(store, req[c].id)
       IN /\ (pc[c] = "d_findById" /\ StepOf(c) /\ target # NoRec
              /\ bcryptCompare(req[c].password, target.password))
               => pc'[c] = "d_delete"
          /\ (pc[c] = "d_delete" /\ StepOf(c))
               => (store' = store \ {target} /\ pc'[c] = "d_list")
          /\ (pc[c] = "d_list" /\ StepOf(c)) => pc'[c] = "d_emit"
          /\ (pc[c] = "d_emit" /\ StepOf(c)) => (pc'[c] = "done" /\ resp'[c] = 200)]_vars

\* A cancel has removed its document after the end of the window.
C20_Witness ==
  \E c \in Conns :
    /\ pc[c] = "d_list"
    /\ req[c].id \in {1, 2} /\ findById(store, req[c].id) = NoRec
    /\ settings.present /\ settings.reservationEndTime # Null
    /\ now > settings.reservationEndTime

\* No request is in flight.
Quiescent == \A c \in Conns : pc[c] \in {"idle", "done"}

\* C19 (part_000, SyncSpec): a connected subscriber is sent the four initial
\* events once each and in order, each carrying what was read for it; and
\* whenever it has had its reservationsInitial and no request is in flight,
\* its reservation view (replaced on every reservationsInitial and
\* reservationsUpdated) equals the store.
C19_InitialSync ==
  /\ Len(socket.events) <= 4
  /\ \A k \in 1 .. Len(socket.events) : socket.events[k].name = InitialEvents[k]
  /\ socket.pc = "on" => Len(socket.events) = 4
  /\ Len(socket.events) >= 1 => socket.events[1].payload = socket.allReservations
  /\ Len(socket.events) >= 2 => socket.events[2].payload = socket.adminSettings
  /\ (Len(socket.events) >= 1 /\ Quiescent) => socket.view = store

\* C21 (part_000, POST, FailSpec): when a store call of the handler is
\* rejected (the AdminSetting lookup, a reservation lookup, the insert or
\* update, the final listing), the handler ends with the answer 500 and the
\* store is left as it was.
C21_StoreFailure500 ==
  [][\A c \in Conns :
       (P0PostSettingsFail(c) \/ P0PostStoreFail(c))
         => (pc'[c] = "done" /\ resp'[c] = 500 /\ store' = store)]_vars

\* The request q of the first server of src/app.js lacks a required field: a
\* POST without roomNo, name, dormitory or floor, or a cancel that is not an
\* admin's and does not name its requester.
A1MissingField(q) ==
  \/ q.method = "POST"
     /\ (q.roomNo = "" \/ q.name = "" \/ q.dormitory = "" \/ q.floor = "")
  \/ q.method = "DELETE" /\ q.path = "" /\ ~q.isAdmin /\ A1RequesterMissing(q)

\* The handler is about to issue a call to the store.
A1AtStoreCall(c) ==
  pc[c] \in {"a1_settings", "a1_findSeat", "a1_findUser", "a1_update", "a1_save",
             "a1_list", "a1d_findById", "a1d_delete", "a1d_list"}

\* C22 (src/app.js first server, A1Spec; POST /api/reservations and DELETE
\* /api/reservations/:id): no handler issues a call to the store for a
\* request that lacks a required field, and such a request is answered 400.
C22_ValidationFirst ==
  /\ [](\A c \in Conns : A1AtStoreCall(c) => ~A1MissingField(req[c]))
  /\ [][\A c \in Conns :
          (StepOf(c) /\ A1MissingField(req[c]) /\ pc'[c] = "done")
            => resp'[c] = 400]_vars

\* C23 (src/app.js third server, ThrottleSpec): a DELETE of
\* /api/reservations/all is never answered 429 by the limiter, whatever the
\* count of the client address in the current window: the limiter hands it
\* to its route.
C23_BulkCancelNotThrottled ==
  [][\A c \in Conns :
       (pc[c] = "a3_limiter" /\ StepOf(c) /\ req[c].method = "DELETE"
        /\ req[c].url = UrlReservationsAll)
         => (pc'[c] = "a3all_deleteMany" /\ resp'[c] # 429)]_vars

\* isBookingOpen: the AdminSetting document a exists, both bounds are
\* non-null, and start <= t <= end.
BookingOpen(a, t) ==
  /\ a.present
  /\ a.reservationStartTime # Null /\ a.reservationEndTime # Null
  /\ a.reservationStartTime <= t /\ t <= a.reservationEndTime

\* The request on c is a create for a free placement: no document has its
\* identity or its placement.
FreshCreate(c) ==
  \A x \in store : IdentityOf(x) # ReqIdentity(c) /\ PlacementOf(x) # ReqPlacement(c)

\* C24 (part_000, POST): the window gate lets a request through exactly when
\* the AdminSetting document exists, both bounds are non-null and
\* start <= now <= end, and answers 403 otherwise; a create for a free
\* placement that passed the gate, with no other request in flight, is
\* inserted and answered 200.
C24_InclusiveWindow ==
  [][\A c \in Conns :
       /\ (pc[c] = "p_gate" /\ StepOf(c))
            => /\ pc'[c] = "p_findSeat" <=> BookingOpen(settings, now)
               /\ pc'[c] # "p_findSeat" => (pc'[c] = "done" /\ resp'[c] = 403)
       /\ (pc[c] = "p_findUser" /\ StepOf(c) /\ Sequential(c) /\ FreshCreate(c))
            => pc'[c] = "p_save"
       /\ (pc[c] = "p_save" /\ StepOf(c) /\ Sequential(c) /\ FreshCreate(c))
            => /\ pc'[c] = "p_list"
               /\ \E y \in store' \ store :
                    /\ store' = store \cup {y}
                    /\ IdentityOf(y) = ReqIdentity(c)
                    /\ PlacementOf(y) = ReqPlacement(c)
       /\ (pc[c] \in {"p_list", "p_emit"} /\ StepOf(c))
            => (pc'[c] = "p_emit" \/ (pc'[c] = "done" /\ resp'[c] = 200))]_vars

\* A create on the empty collection has been inserted, alone, at the moment
\* that is both the start and the end of the window.
C24_Witness ==
  \E c \in Conns :
    /\ pc[c] = "p_emit" /\ Sequential(c)
    /\ existingUser[c] = NoRec
    /\ Cardinality(store) = 1 /\ nextId = 4
    /\ settings.present
    /\ settings.reservationStartTime = now /\ settings.reservationEndTime = now

\* C25 (part_000, POST, OrderSpec): a request with every field present and a
\* weak password, checked while the window is closed or not configured, is
\* not answered by the password policy: when the synchronous checks answer
\* it, the answer is 403.
C25_WindowBeforePolicy ==
  [][\A c \in Conns :
       (pc[c] = "p_validate" /\ StepOf(c)
        /\ ~req[c].honeypot_field /\ ~MissingField(req[c])
        /\ isWeakPassword(req[c].password)
        /\ WindowClosed(settings, now))
         => (pc'[c] = "done" => resp'[c] = 403)]_vars

\* The owner request on c (a PUT, or a DELETE that is not an admin's) is at
\* its checks, and the document it names has the device binding bound.
S1AtChecks(c, bound) ==
  /\ pc[c] \in {"u_findById", "d_findById"}
  /\ ~req[c].isAdmin
  /\ findById(store, req[c].id) # NoRec
  /\ ~Falsy(findById(store, req[c].id).deviceIdentifier) = bound

\* C26 as stated (part_001, S1Spec): a PUT or non-admin DELETE whose
\* deviceIdentifier differs from the one the stored document has is answered
\* 403 and leaves the store as it is; when the stored document has no
\* deviceIdentifier, an owner's request goes on to its next step whatever
\* deviceIdentifier it carries.
C26_Original ==
  [][\A c \in Conns :
       LET r == findById(store, req[c].id)
       IN /\ (S1AtChecks(c, TRUE) /\ StepOf(c)
              /\ r.deviceIdentifier # req[c].deviceIdentifier)
               => (pc'[c] = "done" /\ resp'[c] = 403 /\ store' = store)
          /\ (S1AtChecks(c, FALSE) /\ StepOf(c)
              /\ ~A1RequesterMissing(req[c]) /\ ~A1NotOwner(req[c], r))
               => pc'[c] \in {"u_findConflict", "d_delete"}]_vars

\* C26 as amended: such a request is answered 403, except that a DELETE
\* that does not name its requester is answered 400; in both cases the store
\* is left as it is; the part on documents without a binding is as stated.
C26_DeviceBinding ==
  [][\A c \in Conns :
       LET r == findById(store, req[c].id)
       IN /\ (S1AtChecks(c, TRUE) /\ StepOf(c)
              /\ r.deviceIdentifier # req[c].deviceIdentifier)
               => /\ pc'[c] = "done" /\ store' = store
                  /\ resp'[c] = IF req[c].method = "DELETE" /\ A1RequesterMissing(req[c])
                                THEN 400 ELSE 403
          /\ (S1AtChecks(c, FALSE) /\ StepOf(c)
              /\ ~A1RequesterMissing(req[c]) /\ ~A1NotOwner(req[c], r))
               => pc'[c] \in {"u_findConflict", "d_delete"}]_vars

\* The owner of a reservation bound to a device asks, from another device,
\* to move it, while the owner of a reservation without a binding has got
\* past the checks of a cancel sent with a device.
C26_Witness ==
  \E c, d \in Conns :
    /\ S1AtChecks(c, TRUE) /\ pc[c] = "u_findById"
    /\ ~A1NotOwner(req[c], findById(store, req[c].id))
    /\ req[c].deviceIdentifier \notin {Undefined, findById(store, req[c].id).deviceIdentifier}
    /\ pc[d] = "d_delete" /\ ~req[d].isAdmin /\ req[d].deviceIdentifier # Undefined
    /\ Falsy(findById(store, req[d].id).deviceIdentifier)

\* C27 (part_001, S1Spec): no step of a request that is not an admin's
\* moves, rebinds or deletes a document whose stored deviceIdentifier is set
\* and differs from the deviceIdentifier the request carries.
C27_DeviceBindingNoBypass ==
  [][\A c \in Conns :
       (StepOf(c) /\ ~req[c].isAdmin /\ req[c].deviceIdentifier # Undefined)
         => \A x \in store :
              (~Falsy(x.deviceIdentifier)
               /\ x.deviceIdentifier # req[c].deviceIdentifier)
                => \E y \in store' :
                     /\ y.id = x.id
                     /\ PlacementOf(y) = PlacementOf(x)
                     /\ y.deviceIdentifier = x.deviceIdentifier]_vars

\* C28 (part_000, RoundTripSpec): every document's stored password is what
\* pre('save') made of the password its create was accepted with, written
\* text below.  At the credential check of a move (POST, once the placement
\* test has passed) or of a cancel, the request passes exactly when its
\* password is that text.
C28_PasswordRoundTrip ==
  [][\A c \in Conns :
       /\ (pc[c] = "p_findUser" /\ StepOf(c)
           /\ findOneByUser(store, req[c]) # NoRec
           /\ ~P0SeatTaken(conflictSeat[c], findOneByUser(store, req[c])))
            => (pc'[c] = "p_update"
                  <=> req[c].password = findOneByUser(store, req[c]).password.text)
       /\ (pc[c] = "d_findById" /\ StepOf(c) /\ findById(store, req[c].id) # NoRec)
            => (pc'[c] = "d_delete"
                  <=> req[c].password = findById(store, req[c].id).password.text)]_vars

\* C29 (part_000, WindowRaceSpec): whenever POST /api/reservations inserts a
\* document or re-places one, the AdminSetting document stored at that
\* moment exists, has both bounds, and start <= now <= end.
C29_WriteInsideWindow ==
  [][\A c \in Conns :
       (pc[c] \in {"p_save", "p_update"} /\ pc'[c] = "p_list")
         => BookingOpen(settings, now)]_vars

\* C30 (src/app.js first server, POST, A1Spec): a handler that leaves its
\* write step without an error answer, and so goes on to answer 200 with the
\* document its write returned, has written a document: right after the
\* step the store holds a document of the requesting identity at the
\* requested placement.
C30_SuccessIsStored ==
  [][\A c \in Conns :
       (pc[c] \in {"a1_update", "a1_save"} /\ StepOf(c) /\ pc'[c] # "done")
         => \E y \in store' : /\ IdentityOf(y) = ReqIdentity(c)
                              /\ PlacementOf(y) = ReqPlacement(c)]_vars

\* The handler on connection c has removed the record (it is past line 308
\* with a document in hand, or has answered 200).
A1Cancelled(c) ==
  \/ pc[c] \in {"a1d_list", "a1d_emit"}
  \/ pc[c] = "done" /\ resp[c] = 200

\* C31 (src/app.js first server, CancelRaceSpec): of two authorized cancels
\* of one existing reservation that run concurrently, at most one removes the
\* record, and the record is gone exactly when one has; once both have
\* answered, one answer is 200 and the other 404, and only the other
\* reservation is left.  Only a step that answers 200 broadcasts
\* reservationsUpdated, and no step after the removal changes the store.
C31_CancelRace ==
  /\ [](/\ ~(A1Cancelled(1) /\ A1Cancelled(2))
        /\ Cardinality(store) = (IF \E c \in Conns : A1Cancelled(c) THEN 1 ELSE 2)
        /\ \A c \in Conns :
             pc[c] # "done" => (findById(store, req[c].id) = NoRec
                                  <=> \E d \in Conns : A1Cancelled(d))
        /\ (\A c \in Conns : pc[c] = "done")
             => {resp[c] : c \in Conns} = {200, 404})
  /\ [][/\ emitted' # emitted
             => \E c \in Conns : pc[c] # "done" /\ pc'[c] = "done" /\ resp'[c] = 200
        /\ store' # store => ~\E c \in Conns : A1Cancelled(c)]_vars

\* Both cancels have answered, one 200 after broadcasting the remaining
\* reservation, the other 404.
C31_Witness ==
  /\ \A c \in Conns : pc[c] = "done"
  /\ resp[1] = 404 /\ resp[2] = 200
  /\ emitted.sent /\ Cardinality(emitted.payload) = 1

\* C32 (part_000): under every interleaving of POST, PUT and DELETE requests,
\* in a state where no request is in flight the payload of the last
\* reservationsUpdated event emitted equals the Reservation collection.
C32_ViewConverges ==
  ((\A c \in Conns : Free(c)) /\ emitted.sent) => emitted.payload = store

\* The POST handler on connection c has committed its insert or update
\* (lines 230, 233) and has not answered yet.
P0PostCommitted(c) == pc[c] \in {"p_list", "p_emit"}

\* C33 (part_000, POST, FailSpec): a handler that answers 500 has committed
\* no insert and no update; the step that answers 500 leaves the store as it
\* is.
C33_ErrorMeansNoCommit ==
  [][\A c \in Conns :
       (StepOf(c) /\ pc'[c] = "done" /\ resp'[c] = 500)
         => (~P0PostCommitted(c) /\ store' = store)]_vars

\* No document of the collection s has the placement or the identity of r.
P0Released(s, r) ==
  \A x \in s : PlacementOf(x) # PlacementOf(r) /\ IdentityOf(x) # IdentityOf(r)

\* C34 (part_000, ReuseSpec), for requests handled with no other request in
\* flight: the delete of an accepted cancel leaves no document with the
\* cancelled placement or identity; the update of an accepted move from P to
\* Q # P leaves no document at P; and a valid create by an identity without a
\* reservation for a placement no document has, arriving at the gate while
\* the window is open, passes every check, inserts its document and is
\* answered 200.
C34_PlacementReusable ==
  [][\A c \in Conns :
       (StepOf(c) /\ Sequential(c))
         => /\ pc[c] = "d_delete"
                 => (pc'[c] = "d_list" /\ P0Released(store', existingUser[c]))
            /\ (pc[c] \in {"d_list", "d_emit"})
                 => (pc'[c] = "d_emit" \/ (pc'[c] = "done" /\ resp'[c] = 200))
            /\ (pc[c] = "p_update" /\ pc'[c] = "p_list"
                /\ ReqPlacement(c) # PlacementOf(existingUser[c]))
                 => \A x \in store' : PlacementOf(x) # PlacementOf(existingUser[c])
            /\ (pc[c] = "u_update" /\ pc'[c] = "u_list"
                /\ ReqPlacement(c) # PlacementOf(findById(store, req[c].id)))
                 => \A x \in store' :
                      PlacementOf(x) # PlacementOf(findById(store, req[c].id))
            /\ pc[c] = "p_settings" => pc'[c] = "p_gate"
            /\ (pc[c] = "p_gate" /\ BookingOpen(settings, now))
                 => pc'[c] = "p_findSeat"
            /\ (pc[c] = "p_findSeat" /\ FreshCreate(c)) => pc'[c] = "p_findUser"
            /\ (pc[c] = "p_findUser" /\ FreshCreate(c)) => pc'[c] = "p_save"
            /\ (pc[c] = "p_save" /\ FreshCreate(c))
                 => /\ pc'[c] = "p_list"
                    /\ store' = store \cup {P0NewReservation(nextId, req[c])}
                    /\ P0NewReservation(nextId, req[c]) \notin store
            /\ pc[c] = "p_list" => (pc'[c] = "p_emit" /\ store' = store)
            /\ pc[c] = "p_emit"
                 => (pc'[c] = "done" /\ resp'[c] = 200 /\ store' = store)]_vars

\* Kim has moved from seat 5 to seat 6, and a later create for seat 5 has been
\* accepted: the collection holds the moved document and the new one.
C34_Witness ==
  /\ Sequential(1) /\ pc[1] = "done" /\ resp[1] = 200
  /\ \E x, y \in store :
       /\ x.id = 1 /\ x.seat = 6
       /\ y.id = 3 /\ y.seat = 5 /\ y.roomNo = "202"

\* C35 (part_000, SingletonSpec): under any interleaving of GET and PUT
\* /api/admin-settings the collection never holds a second AdminSetting
\* document with key 'reservationTimes', and no step of a GET changes the
\* bounds of a document that exists.
C35_SettingSingleton ==
  /\ [](extraAdminSettings = 0)
  /\ [][\A c \in Conns :
          (pc[c] \in {"g_find", "g_save"} /\ StepOf(c) /\ settings.present)
            => settings' = settings]_vars

\* A GET that found no document had its insert refused, because an accepted
\* PUT created the document in between; the document has the PUT's bounds.
C35_Witness ==
  \E c, d \in Conns :
    /\ pc[c] = "done" /\ resp[c] = 500
    /\ pc[d] = "done" /\ resp[d] = 200
    /\ settings = Setting(0, MaxTime)

\* s is a prefix of the sequence row.
IsPrefixOf(s, row) == Len(s) <= Len(row) /\ s = SubSeq(row, 1, Len(s))

\* Four consecutive characters of p, in steps of +1 or of -1 in al.
HasRunIn(p, al) ==
  \E i \in 1 .. Len(p) - 3 :
    \E first \in 1 .. Len(al), step \in {1, 0 - 1} :
      \A k \in 0 .. 3 :
        /\ first + k * step \in 1 .. Len(al)
        /\ p[i + k] = al[first + k * step]

\* The weak passwords as the specification describes them, on the
\* case-folded password: four or more repetitions of one character; a prefix
\* of the alphabet from 'abcd' on; a prefix of a keyboard row from 'qwer',
\* 'asdf' or 'zxcv' on; or four consecutive characters anywhere that form an
\* ascending or descending run of digits or of lowercase letters.
WeakAsSpecified(password) ==
  LET p == toLowerCase(password)
  IN \/ Len(p) >= 4 /\ \A i \in 1 .. Len(p) : p[i] = p[1]
     \/ Len(p) >= 4 /\ IsPrefixOf(p, LowerCase)
     \/ Len(p) >= 4 /\ IsPrefixOf(p, <<"q","w","e","r","t","y","u","i","o","p">>)
     \/ Len(p) >= 4 /\ IsPrefixOf(p, <<"a","s","d","f","g","h","j","k","l">>)
     \/ Len(p) >= 4 /\ IsPrefixOf(p, <<"z","x","c","v","b","n","m">>)
     \/ HasRunIn(p, Digits)
     \/ HasRunIn(p, LowerCase)

\* C36 (part_000, WeakSpec): isWeakPassword is true exactly for the passwords
\* the specification describes, and a POST /api/reservations whose password
\* it finds weak is answered 400 with the store untouched.
C36_WeakPasswordRule ==
  [][\A c \in Conns :
       (pc[c] = "p_validate" /\ StepOf(c))
         => /\ isWeakPassword(req[c].password) <=> WeakAsSpecified(req[c].password)
            /\ isWeakPassword(req[c].password)
                 => (pc'[c] = "done" /\ resp'[c] = 400 /\ store' = store)]_vars

====
